---- MODULE Spec2Model ----
(***************************************************************************)
(* The limit order book of src/orderbook/modifications.rs: limit orders,   *)
(* market orders, the market-order retry queues, order updates and the     *)
(* last-trade timestamp.  Every call is a sequence of steps, one per       *)
(* access to shared state (a DashMap operation, an atomic load or store, a *)
(* queue push or pop), executed by a caller; callers interleave between    *)
(* steps.                                                                  *)
(*                                                                         *)
(* modifications.rs uses fields and methods of OrderBook that book.rs      *)
(* does not declare (bids, asks, orders, the two cached best prices,       *)
(* the retry queues, last_traded_at, best_bid(), best_ask(),               *)
(* update_cached_best_bid/ask).  Those, and the price level of the         *)
(* pricelevel crate, are modelled from the specification (sections 3, 4.1  *)
(* and 4.5).                                                               *)
(***************************************************************************)
EXTENDS Integers, Sequences, FiniteSets, TLC

\* ------------------------------------------------------------------ bounds
MaxPrice == 3
MaxQty == 2
MaxCalls == 3
MaxClock == 2

\* std::env::var("MAX_ORDERS_PER_RETRY") ... unwrap_or(4)
MaxOrdersPerRetry == 4

Prices == 1..MaxPrice
Quantities == 0..MaxQty
OrderIds == 1..MaxCalls
Sides == {"Buy", "Sell"}
AllCallers == {1, 2}

\* Option<u64>
None == [some |-> FALSE, v |-> 0]
Some(x) == [some |-> TRUE, v |-> x]
\* Result<u64> (and Result<OrderId>, Result<()>); NoResult: nothing returned yet
NoResult == [tag |-> "none", v |-> 0, err |-> ""]
Ok(x) == [tag |-> "Ok", v |-> x, err |-> ""]
Err(e) == [tag |-> "Err", v |-> 0, err |-> e]
\* cached best bid: 0 means unknown or empty
BidSentinel == 0
\* cached best ask: u64::MAX means unknown or empty; it is above every price
AskSentinel == MaxPrice + 1

VARIABLES
    bids,                \* DashMap<u64, Arc<PriceLevel>>: price -> queue of [id, qty]
    asks,
    orders,              \* DashMap<OrderId, (u64, Side)>: id -> [price, side]
    cached_best_bid,     \* AtomicU64
    cached_best_ask,     \* AtomicU64
    market_orders_bids,  \* SegQueue<(OrderId, u64)> of market buys
    market_orders_asks,  \* SegQueue<(OrderId, u64)> of market sells
    last_traded_at,      \* AtomicU64
    clock,               \* the system time current_time_millis() reads
    next_id,             \* the next OrderId a caller supplies (ids are unique)
    n_updates,           \* the update_order calls made so far
    held,                \* caller -> the map entries (<<side, price>>) it holds a guard of
    pc,                  \* caller -> its position
    loc,                 \* caller -> its local variables
    pre,                 \* caller -> the book when its call began
    exchange_bids_price_level,  \* book.rs: DashMap<(u64, Exchange), BTreeMap<u64, u64>>
    exchange_asks_price_level,
    level_calls,         \* <<side, price, exchange>> -> the add_exchange_price_level
                         \* calls begun for it: how many, and the sum of their quantities
    best_bid_all_exchanges,  \* book.rs: (Exchange, AtomicU64), as [exchange, price]
    best_ask_all_exchanges

vars == <<bids, asks, orders, cached_best_bid, cached_best_ask, market_orders_bids,
          market_orders_asks, last_traded_at, clock, next_id, n_updates, held, pc, loc,
          pre, exchange_bids_price_level, exchange_asks_price_level, level_calls,
          best_bid_all_exchanges, best_ask_all_exchanges>>

\* the two maps of the OrderBook that book.rs declares, and the calls made on them
exchange_vars == <<exchange_bids_price_level, exchange_asks_price_level, level_calls,
                   best_bid_all_exchanges, best_ask_all_exchanges>>

\* OrderBook::new: best_bid_all_exchanges: (Exchange::Binance, AtomicU64::new(0)),
\*                 best_ask_all_exchanges: (Exchange::Binance, AtomicU64::new(0))
OrderBook_new ==
    [best_bid_all_exchanges |-> [exchange |-> "Binance", price |-> 0],
     best_ask_all_exchanges |-> [exchange |-> "Binance", price |-> 0]]

\* Option<(u64, Exchange)>: None, or Some((price, exchange))
NoQuote == [some |-> FALSE, v |-> <<0, "Binance">>]
Quote(price, exchange) == [some |-> TRUE, v |-> <<price, exchange>>]

\* pub fn best_bid_all_exchanges(&self) -> Option<(u64, Exchange)>
best_bid_all_exchanges_fn ==
    IF best_bid_all_exchanges.price = 0
    THEN NoQuote
    ELSE Quote(best_bid_all_exchanges.price, best_bid_all_exchanges.exchange)

\* pub fn best_ask_all_exchanges(&self) -> Option<(u64, Exchange)>
best_ask_all_exchanges_fn ==
    IF best_ask_all_exchanges.price = 0
    THEN NoQuote
    ELSE Quote(best_ask_all_exchanges.price, best_ask_all_exchanges.exchange)

\* the two fields that hold the best price across all exchanges
all_exchanges_vars == <<best_bid_all_exchanges, best_ask_all_exchanges>>

book_vars == <<bids, asks, orders, cached_best_bid, cached_best_ask,
               market_orders_bids, market_orders_asks, last_traded_at>>

\* the public calls begun so far: each order call takes a fresh id
CallsMade == (next_id - 1) + n_updates

\* ----------------------------------------------------------------- helpers
Max(S) == CHOOSE x \in S : \A y \in S : y <= x
Min(S) == CHOOSE x \in S : \A y \in S : x <= y

EmptyMap == [p \in {} |-> <<>>]
MapInsert(m, k, v) == [x \in DOMAIN m \cup {k} |-> IF x = k THEN v ELSE m[x]]
MapRemove(m, k) == [x \in DOMAIN m \ {k} |-> m[x]]

Opposite(side) == IF side = "Buy" THEN "Sell" ELSE "Buy"
\* match side { Side::Buy => &self.bids, Side::Sell => &self.asks }
SideMap(side) == IF side = "Buy" THEN bids ELSE asks

\* ------------------------------------------- the price level (pricelevel)
PriceLevel_new == <<>>
PriceLevel_order_count(level) == Len(level)
PriceLevel_add_order(level, id, qty) == Append(level, [id |-> id, qty |-> qty])

RECURSIVE PriceLevel_total_quantity(_)
PriceLevel_total_quantity(level) ==
    IF level = <<>> THEN 0 ELSE Head(level).qty + PriceLevel_total_quantity(Tail(level))

\* match_order(incoming_quantity, ..): price-time priority within the level;
\* returns the level left, the ids fully filled and the remaining quantity.
RECURSIVE PriceLevel_match_order(_, _)
PriceLevel_match_order(level, quantity) ==
    IF quantity = 0 \/ level = <<>>
    THEN [level |-> level, filled_order_ids |-> <<>>, remaining_quantity |-> quantity]
    ELSE IF Head(level).qty <= quantity
         THEN LET r == PriceLevel_match_order(Tail(level), quantity - Head(level).qty)
              IN  [r EXCEPT !.filled_order_ids = <<Head(level).id>> \o @]
         ELSE [level |-> <<[Head(level) EXCEPT !.qty = @ - quantity]>> \o Tail(level),
               filled_order_ids |-> <<>>,
               remaining_quantity |-> 0]

LevelIds(level) == {level[i].id : i \in 1..Len(level)}
LevelWithout(level, id) == SelectSeq(level, LAMBDA o : o.id # id)
LevelQtyOf(level, id) ==
    LET i == CHOOSE i \in 1..Len(level) : level[i].id = id IN level[i].qty

\* update_order(update): Ok(None) when the order is not in the level; a price
\* change or a cancel takes the order out of the level and returns it; a
\* quantity change is made in place.
PriceLevel_update_order(level, kind, id, new_quantity) ==
    IF id \notin LevelIds(level)
    THEN [level |-> level, found |-> FALSE, order |-> [id |-> id, qty |-> 0]]
    ELSE IF kind = "UpdateQuantity"
         THEN [level |-> [i \in 1..Len(level) |->
                             IF level[i].id = id
                             THEN [level[i] EXCEPT !.qty = new_quantity]
                             ELSE level[i]],
               found |-> TRUE,
               order |-> [id |-> id, qty |-> new_quantity]]
         ELSE [level |-> LevelWithout(level, id),
               found |-> TRUE,
               order |-> [id |-> id, qty |-> LevelQtyOf(level, id)]]

\* ------------------------------------------------ best prices (section 4.1)
ActiveLevels(m) == {p \in DOMAIN m : PriceLevel_order_count(m[p]) > 0}
\* price_levels.retain(|_, v| v.order_count() > 0)
RetainNonEmpty(m) == [p \in ActiveLevels(m) |-> m[p]]

\* best_bid(): the cached price if its level still holds orders, else a scan
\* of the side map whose result is written to the cache.
\* (val: the price returned; cache: the cached price when it returns)
best_bid_in(m, cached) ==
    IF cached # BidSentinel /\ cached \in ActiveLevels(m)
    THEN [val |-> Some(cached), cache |-> cached]
    ELSE IF ActiveLevels(m) = {}
         THEN [val |-> None, cache |-> BidSentinel]
         ELSE [val |-> Some(Max(ActiveLevels(m))), cache |-> Max(ActiveLevels(m))]

best_ask_in(m, cached) ==
    IF cached # AskSentinel /\ cached \in ActiveLevels(m)
    THEN [val |-> Some(cached), cache |-> cached]
    ELSE IF ActiveLevels(m) = {}
         THEN [val |-> None, cache |-> AskSentinel]
         ELSE [val |-> Some(Min(ActiveLevels(m))), cache |-> Min(ActiveLevels(m))]

best_bid == best_bid_in(bids, cached_best_bid)
best_ask == best_ask_in(asks, cached_best_ask)

\* update_cached_best_bid(price): only an improvement overwrites the cache
update_cached_best_bid(price) == IF price > cached_best_bid THEN price ELSE cached_best_bid
update_cached_best_ask(price) == IF price < cached_best_ask THEN price ELSE cached_best_ask

\* -------------------------------------------------------- guards (DashMap)
\* An entry guard held by another caller blocks every access to that key.
EntryFree(t, side, price) == \A u \in AllCallers \ {t} : <<side, price>> \notin held[u]
MapFree(t, side) == \A u \in AllCallers \ {t} : \A e \in held[u] : e[1] # side
\* best_bid()/best_ask() read the cached level, or scan the whole map
BestReadable(t, side) ==
    IF side = "Buy"
    THEN IF cached_best_bid # BidSentinel /\ cached_best_bid \in ActiveLevels(bids)
         THEN EntryFree(t, "Buy", cached_best_bid) ELSE MapFree(t, "Buy")
    ELSE IF cached_best_ask # AskSentinel /\ cached_best_ask \in ActiveLevels(asks)
         THEN EntryFree(t, "Sell", cached_best_ask) ELSE MapFree(t, "Sell")

\* ------------------------------------------------------------------- state
Book ==
    [bids |-> bids, asks |-> asks, orders |-> orders,
     cached_best_bid |-> cached_best_bid, cached_best_ask |-> cached_best_ask,
     market_orders_bids |-> market_orders_bids,
     market_orders_asks |-> market_orders_asks,
     last_traded_at |-> last_traded_at]

NoBook == [bids |-> EmptyMap, asks |-> EmptyMap, orders |-> EmptyMap,
           cached_best_bid |-> BidSentinel, cached_best_ask |-> AskSentinel,
           market_orders_bids |-> <<>>, market_orders_asks |-> <<>>,
           last_traded_at |-> 0]

NoLevels == [bids |-> EmptyMap, asks |-> EmptyMap]

\* how a call of a function that may panic ended
NoOutcome == [tag |-> "none", value |-> None]
Returned(x) == [tag |-> "returned", value |-> x]
Panicked == [tag |-> "panicked", value |-> None]

Loc0 ==
    [op |-> "none",          \* the public call in progress
     id |-> 0, price |-> 0, quantity |-> 0, side |-> "Buy",   \* its arguments
     kind |-> "none", new_price |-> 0, new_quantity |-> 0,    \* update_order's
     m_id |-> 0, m_quantity |-> 0, m_side |-> "Buy",          \* submit_market_order_direct's
     in_retry |-> FALSE,     \* the direct submission was made by the retry loop
     val |-> 0,              \* the best opposing price read
     matched |-> FALSE,      \* match_order was called
     filled_order_ids |-> <<>>,
     remaining_quantity |-> 0,
     should_remove |-> FALSE,
     current_time |-> 0,
     retry_side |-> "Buy",
     retry_orders |-> <<>>,
     count |-> 0,
     resubmitted |-> 0,      \* direct submissions the retry trigger has made
     popped |-> <<>>,        \* the entries the retry trigger has collected
     retried |-> <<>>,       \* its direct submissions and what each returned
     traded |-> 0,           \* the quantity the call has matched so far
     stamped |-> FALSE,      \* the call has changed last_traded_at
     snap |-> NoBook,        \* the book when add_order / the direct submission began
     direct |-> NoResult,    \* what the last direct submission returned
     exchange |-> "Binance", \* add_exchange_price_level's argument
     guard |-> FALSE,        \* it holds the RefMut of its key's entry
     entry |-> 0,            \* the quantity it found stored
     xpre |-> NoLevels,      \* the two exchange maps when the call began
     s |-> <<>>,             \* parse_price_cents' argument
     parsed |-> NoOutcome,   \* what parse_price_cents did with it
     result |-> NoResult]    \* what the public call returned

\* OrderBook::new
Init ==
    /\ bids = EmptyMap
    /\ asks = EmptyMap
    /\ orders = EmptyMap
    /\ cached_best_bid = BidSentinel
    /\ cached_best_ask = AskSentinel
    /\ market_orders_bids = <<>>
    /\ market_orders_asks = <<>>
    /\ last_traded_at = 0
    /\ clock = 1
    /\ next_id = 1
    /\ n_updates = 0
    /\ held = [t \in AllCallers |-> {}]
    /\ pc = [t \in AllCallers |-> "idle"]
    /\ loc = [t \in AllCallers |-> Loc0]
    /\ pre = [t \in AllCallers |-> NoBook]
    /\ best_bid_all_exchanges = OrderBook_new.best_bid_all_exchanges
    /\ best_ask_all_exchanges = OrderBook_new.best_ask_all_exchanges
    /\ exchange_bids_price_level = EmptyMap
    /\ exchange_asks_price_level = EmptyMap
    /\ level_calls = EmptyMap

Goto(t, label) == pc' = [pc EXCEPT ![t] = label]
SetLoc(t, r) == loc' = [loc EXCEPT ![t] = r]

\* The queue of market orders of one side
Queue(side) == IF side = "Buy" THEN market_orders_bids ELSE market_orders_asks

\* ------------------------------------------------------ submit_market_order
\* submit_market_order(order_id, quantity, side): the call begins
submit_market_order(t) ==
    /\ UNCHANGED exchange_vars
    /\ pc[t] = "idle"
    /\ CallsMade < MaxCalls
    /\ \E quantity \in Quantities, side \in Sides :
          SetLoc(t, [Loc0 EXCEPT !.op = "market", !.id = next_id,
                                 !.quantity = quantity, !.side = side,
                                 !.m_id = next_id, !.m_quantity = quantity,
                                 !.m_side = side, !.snap = Book])
    /\ next_id' = next_id + 1
    /\ pre' = [pre EXCEPT ![t] = Book]
    /\ Goto(t, "smd_best")
    /\ UNCHANGED <<book_vars, clock, n_updates, held>>

\* smd_best that takes the cached best price without looking at its level
smd_best_cache_trusted(t) ==
    /\ UNCHANGED exchange_vars
    /\ pc[t] = "smd_best"
    /\ LET cached == IF loc[t].m_side = "Buy" THEN cached_best_ask ELSE cached_best_bid
           sentinel == IF loc[t].m_side = "Buy" THEN AskSentinel ELSE BidSentinel IN
          /\ SetLoc(t, [loc[t] EXCEPT !.val = cached, !.matched = FALSE,
                                      !.filled_order_ids = <<>>,
                                      !.remaining_quantity = loc[t].m_quantity])
          /\ Goto(t, IF cached # sentinel THEN "smd_match" ELSE "smd_enqueue")
    /\ UNCHANGED <<book_vars, clock, next_id, n_updates, held, pre>>

\* submit_market_order_direct: let best_bid_or_ask = match side { .. }
smd_best(t) ==
    /\ UNCHANGED exchange_vars
    /\ pc[t] = "smd_best"
    /\ BestReadable(t, Opposite(loc[t].m_side))
    /\ LET best == IF loc[t].m_side = "Buy" THEN best_ask ELSE best_bid IN
          /\ cached_best_ask' = IF loc[t].m_side = "Buy" THEN best.cache ELSE cached_best_ask
          /\ cached_best_bid' = IF loc[t].m_side = "Buy" THEN cached_best_bid ELSE best.cache
          /\ SetLoc(t, [loc[t] EXCEPT !.val = best.val.v, !.matched = FALSE,
                                      !.filled_order_ids = <<>>,
                                      !.remaining_quantity = loc[t].m_quantity])
          /\ Goto(t, IF best.val.some THEN "smd_match" ELSE "smd_enqueue")
    /\ UNCHANGED <<bids, asks, orders, market_orders_bids, market_orders_asks,
                   last_traded_at, clock, next_id, n_updates, held, pre>>

\* smd_match that matches against the level as it was when the direct
\* submission began (a read and a later write in place of one guarded update)
smd_match_stale(t) ==
    /\ UNCHANGED exchange_vars
    /\ pc[t] = "smd_match"
    /\ EntryFree(t, Opposite(loc[t].m_side), loc[t].val)
    /\ LET m == IF loc[t].m_side = "Buy" THEN loc[t].snap.asks ELSE loc[t].snap.bids
           val == loc[t].val IN
          IF val \notin DOMAIN m
          THEN /\ SetLoc(t, [loc[t] EXCEPT !.direct = Err("Price level disappeared")])
               /\ Goto(t, "smd_ret")
               /\ UNCHANGED <<bids, asks>>
          ELSE LET r == PriceLevel_match_order(m[val], loc[t].m_quantity) IN
               /\ bids' = IF loc[t].m_side = "Sell" THEN MapInsert(bids, val, r.level) ELSE bids
               /\ asks' = IF loc[t].m_side = "Buy" THEN MapInsert(asks, val, r.level) ELSE asks
               /\ SetLoc(t, [loc[t] EXCEPT
                       !.matched = TRUE,
                       !.filled_order_ids = r.filled_order_ids,
                       !.remaining_quantity = r.remaining_quantity,
                       !.should_remove = (PriceLevel_order_count(r.level) = 0),
                       !.traded = @ + (loc[t].m_quantity - r.remaining_quantity)])
               /\ Goto(t, IF PriceLevel_order_count(r.level) = 0
                          THEN "smd_remove" ELSE "smd_time_load")
    /\ UNCHANGED <<orders, cached_best_bid, cached_best_ask, market_orders_bids,
                   market_orders_asks, last_traded_at, clock, next_id, n_updates, held, pre>>

\* bids_or_asks.get_mut(&val) ... entry.match_order(..) ... drop(entry)
smd_match(t) ==
    /\ UNCHANGED exchange_vars
    /\ pc[t] = "smd_match"
    /\ EntryFree(t, Opposite(loc[t].m_side), loc[t].val)
    /\ LET m == SideMap(Opposite(loc[t].m_side))
           val == loc[t].val IN
          IF val \notin DOMAIN m
          THEN \* Err("Price level disappeared")
               /\ SetLoc(t, [loc[t] EXCEPT !.direct = Err("Price level disappeared")])
               /\ Goto(t, "smd_ret")
               /\ UNCHANGED <<bids, asks>>
          ELSE LET r == PriceLevel_match_order(m[val], loc[t].m_quantity) IN
               /\ bids' = IF loc[t].m_side = "Sell" THEN [bids EXCEPT ![val] = r.level] ELSE bids
               /\ asks' = IF loc[t].m_side = "Buy" THEN [asks EXCEPT ![val] = r.level] ELSE asks
               /\ SetLoc(t, [loc[t] EXCEPT
                       !.matched = TRUE,
                       !.filled_order_ids = r.filled_order_ids,
                       !.remaining_quantity = r.remaining_quantity,
                       !.should_remove = (PriceLevel_order_count(r.level) = 0),
                       !.traded = @ + (loc[t].m_quantity - r.remaining_quantity)])
               /\ Goto(t, IF PriceLevel_order_count(r.level) = 0
                          THEN "smd_remove" ELSE "smd_time_load")
    /\ UNCHANGED <<orders, cached_best_bid, cached_best_ask, market_orders_bids,
                   market_orders_asks, last_traded_at, clock, next_id, n_updates, held, pre>>

\* if should_remove { bids_or_asks.remove(&val); }
smd_remove(t) ==
    /\ UNCHANGED exchange_vars
    /\ pc[t] = "smd_remove"
    /\ EntryFree(t, Opposite(loc[t].m_side), loc[t].val)
    /\ bids' = IF loc[t].m_side = "Sell" THEN MapRemove(bids, loc[t].val) ELSE bids
    /\ asks' = IF loc[t].m_side = "Buy" THEN MapRemove(asks, loc[t].val) ELSE asks
    /\ Goto(t, "smd_time_load")
    /\ UNCHANGED <<orders, cached_best_bid, cached_best_ask, market_orders_bids,
                   market_orders_asks, last_traded_at, clock, next_id, n_updates, held, loc, pre>>

\* let current_time = super::current_time_millis();
current_time_millis(t) ==
    /\ UNCHANGED exchange_vars
    /\ pc[t] \in {"smd_time_load", "ao_time_load"}
    /\ \E now \in {clock, clock + 1} :
          /\ now <= MaxClock
          /\ clock' = now
          /\ SetLoc(t, [loc[t] EXCEPT !.current_time = now])
    /\ Goto(t, IF pc[t] = "smd_time_load" THEN "smd_time_store" ELSE "ao_time_store")
    /\ UNCHANGED <<book_vars, next_id, n_updates, held, pre>>

\* self.last_traded_at.store(current_time, Ordering::Relaxed);
update_last_trade_time(t) ==
    /\ UNCHANGED exchange_vars
    /\ pc[t] \in {"smd_time_store", "ao_time_store"}
    /\ last_traded_at' = loc[t].current_time
    /\ SetLoc(t, [loc[t] EXCEPT !.stamped = @ \/ (loc[t].current_time # last_traded_at)])
    /\ Goto(t, IF pc[t] = "smd_time_store"
               THEN (IF loc[t].filled_order_ids = <<>> THEN "smd_enqueue" ELSE "smd_index")
               ELSE (IF loc[t].filled_order_ids = <<>> THEN "ao_insert" ELSE "ao_index"))
    /\ UNCHANGED <<bids, asks, orders, cached_best_bid, cached_best_ask,
                   market_orders_bids, market_orders_asks, clock, next_id, n_updates,
                   held, pre>>

\* for filled_order_id in &match_result.filled_order_ids { self.orders.remove(..) }
smd_index(t) ==
    /\ UNCHANGED exchange_vars
    /\ pc[t] = "smd_index"
    /\ orders' = MapRemove(orders, Head(loc[t].filled_order_ids))
    /\ SetLoc(t, [loc[t] EXCEPT !.filled_order_ids = Tail(@)])
    /\ Goto(t, IF Tail(loc[t].filled_order_ids) = <<>> THEN "smd_enqueue" ELSE "smd_index")
    /\ UNCHANGED <<bids, asks, cached_best_bid, cached_best_ask, market_orders_bids,
                   market_orders_asks, last_traded_at, clock, next_id, n_updates, held, pre>>

\* smd_enqueue that pushes the order on its retry queue on every exit
smd_enqueue_always(t) ==
    /\ UNCHANGED exchange_vars
    /\ pc[t] = "smd_enqueue"
    /\ LET entry == <<loc[t].m_id, loc[t].remaining_quantity>> IN
          /\ market_orders_bids' =
                IF loc[t].m_side = "Buy"
                THEN Append(market_orders_bids, entry) ELSE market_orders_bids
          /\ market_orders_asks' =
                IF loc[t].m_side = "Sell"
                THEN Append(market_orders_asks, entry) ELSE market_orders_asks
    /\ SetLoc(t, [loc[t] EXCEPT !.direct = Ok(loc[t].remaining_quantity)])
    /\ Goto(t, "smd_ret")
    /\ UNCHANGED <<bids, asks, orders, cached_best_bid, cached_best_ask,
                   last_traded_at, clock, next_id, n_updates, held, pre>>

\* smd_enqueue that pushes the remainder on the queue of the side it was to
\* match against
smd_enqueue_other_side(t) ==
    /\ UNCHANGED exchange_vars
    /\ pc[t] = "smd_enqueue"
    /\ LET push == ~loc[t].matched \/ loc[t].remaining_quantity > 0
           entry == <<loc[t].m_id, loc[t].remaining_quantity>> IN
          /\ market_orders_bids' =
                IF push /\ loc[t].m_side = "Sell"
                THEN Append(market_orders_bids, entry) ELSE market_orders_bids
          /\ market_orders_asks' =
                IF push /\ loc[t].m_side = "Buy"
                THEN Append(market_orders_asks, entry) ELSE market_orders_asks
    /\ SetLoc(t, [loc[t] EXCEPT !.direct = Ok(loc[t].remaining_quantity)])
    /\ Goto(t, "smd_ret")
    /\ UNCHANGED <<bids, asks, orders, cached_best_bid, cached_best_ask,
                   last_traded_at, clock, next_id, n_updates, held, pre>>

\* smd_enqueue that returns the quantity the order was submitted with
smd_enqueue_returns_quantity(t) ==
    /\ UNCHANGED exchange_vars
    /\ pc[t] = "smd_enqueue"
    /\ LET push == ~loc[t].matched \/ loc[t].remaining_quantity > 0
           entry == <<loc[t].m_id, loc[t].remaining_quantity>> IN
          /\ market_orders_bids' =
                IF push /\ loc[t].m_side = "Buy"
                THEN Append(market_orders_bids, entry) ELSE market_orders_bids
          /\ market_orders_asks' =
                IF push /\ loc[t].m_side = "Sell"
                THEN Append(market_orders_asks, entry) ELSE market_orders_asks
    /\ SetLoc(t, [loc[t] EXCEPT !.direct = Ok(loc[t].m_quantity)])
    /\ Goto(t, "smd_ret")
    /\ UNCHANGED <<bids, asks, orders, cached_best_bid, cached_best_ask,
                   last_traded_at, clock, next_id, n_updates, held, pre>>

\* the three exits of submit_market_order_direct: Ok(0) after a complete fill,
\* push and Ok(remaining) after a partial one, push and Ok(quantity) when there
\* was no best price
smd_enqueue(t) ==
    /\ UNCHANGED exchange_vars
    /\ pc[t] = "smd_enqueue"
    /\ LET push == ~loc[t].matched \/ loc[t].remaining_quantity > 0
           entry == <<loc[t].m_id, loc[t].remaining_quantity>> IN
          /\ market_orders_bids' =
                IF push /\ loc[t].m_side = "Buy"
                THEN Append(market_orders_bids, entry) ELSE market_orders_bids
          /\ market_orders_asks' =
                IF push /\ loc[t].m_side = "Sell"
                THEN Append(market_orders_asks, entry) ELSE market_orders_asks
    /\ SetLoc(t, [loc[t] EXCEPT !.direct = Ok(loc[t].remaining_quantity)])
    /\ Goto(t, "smd_ret")
    /\ UNCHANGED <<bids, asks, orders, cached_best_bid, cached_best_ask,
                   last_traded_at, clock, next_id, n_updates, held, pre>>

\* smd_ret that returns from submit_market_order without the retry
smd_ret_no_retry(t) ==
    /\ UNCHANGED exchange_vars
    /\ pc[t] = "smd_ret"
    /\ IF loc[t].in_retry
       THEN /\ Goto(t, "retry_next")
            /\ SetLoc(t, [loc[t] EXCEPT
                    !.resubmitted = @ + 1,
                    !.retried = Append(@, [id |-> loc[t].m_id, quantity |-> loc[t].m_quantity,
                                           side |-> loc[t].m_side,
                                           returned |-> loc[t].direct])])
       ELSE /\ Goto(t, "done")
            /\ SetLoc(t, [loc[t] EXCEPT !.result = loc[t].direct])
    /\ UNCHANGED <<book_vars, clock, next_id, n_updates, held, pre>>

\* submit_market_order_direct has returned: to the retry loop, or to
\* submit_market_order ( if result.is_ok() { self.retry_unfilled_market_orders() } )
smd_ret(t) ==
    /\ UNCHANGED exchange_vars
    /\ pc[t] = "smd_ret"
    /\ IF loc[t].in_retry
       THEN /\ Goto(t, "retry_next")
            /\ SetLoc(t, [loc[t] EXCEPT
                    !.resubmitted = @ + 1,
                    !.retried = Append(@, [id |-> loc[t].m_id, quantity |-> loc[t].m_quantity,
                                           side |-> loc[t].m_side,
                                           returned |-> loc[t].direct])])
       ELSE /\ Goto(t, IF loc[t].direct.tag = "Err" THEN "done" ELSE "retry_pop")
            /\ SetLoc(t, [loc[t] EXCEPT !.result = loc[t].direct,
                                        !.retry_side = "Buy",
                                        !.retry_orders = <<>>, !.count = 0])
    /\ UNCHANGED <<book_vars, clock, next_id, n_updates, held, pre>>

\* ------------------------------------------- retry_unfilled_market_orders
\* the next side of retry_unfilled_market_orders, or its return
RetrySideDone(t, l) ==
    IF l.retry_side = "Buy"
    THEN /\ SetLoc(t, [l EXCEPT !.retry_side = "Sell", !.retry_orders = <<>>, !.count = 0])
         /\ Goto(t, "retry_pop")
    ELSE /\ SetLoc(t, l)
         /\ Goto(t, "done")

\* the pop loop taking the entry enqueued last in place of the oldest
retry_pop_newest(t) ==
    /\ UNCHANGED exchange_vars
    /\ pc[t] = "retry_pop"
    /\ LET q == Queue(loc[t].retry_side) IN
          IF q = <<>>
          THEN /\ UNCHANGED <<market_orders_bids, market_orders_asks>>
               /\ IF loc[t].retry_orders = <<>>
                  THEN RetrySideDone(t, loc[t])
                  ELSE /\ Goto(t, "retry_next")
                       /\ UNCHANGED loc
          ELSE LET last == q[Len(q)]
                   rest == SubSeq(q, 1, Len(q) - 1) IN
               /\ market_orders_bids' =
                     IF loc[t].retry_side = "Buy" THEN rest ELSE market_orders_bids
               /\ market_orders_asks' =
                     IF loc[t].retry_side = "Sell" THEN rest ELSE market_orders_asks
               /\ IF last[2] = 0
                  THEN UNCHANGED <<pc, loc>>
                  ELSE /\ SetLoc(t, [loc[t] EXCEPT
                               !.retry_orders = Append(@, last),
                               !.count = @ + 1,
                               !.popped = Append(@, [id |-> last[1],
                                                     quantity |-> last[2],
                                                     side |-> loc[t].retry_side])])
                       /\ Goto(t, IF loc[t].count + 1 >= MaxOrdersPerRetry
                                  THEN "retry_next" ELSE "retry_pop")
    /\ UNCHANGED <<bids, asks, orders, cached_best_bid, cached_best_ask,
                   last_traded_at, clock, next_id, n_updates, held, pre>>

\* the pop loop without the break at count >= max_orders
retry_pop_unbounded(t) ==
    /\ UNCHANGED exchange_vars
    /\ pc[t] = "retry_pop"
    /\ LET q == Queue(loc[t].retry_side) IN
          IF q = <<>>
          THEN /\ UNCHANGED <<market_orders_bids, market_orders_asks>>
               /\ IF loc[t].retry_orders = <<>>
                  THEN RetrySideDone(t, loc[t])
                  ELSE /\ Goto(t, "retry_next")
                       /\ UNCHANGED loc
          ELSE /\ market_orders_bids' =
                     IF loc[t].retry_side = "Buy" THEN Tail(q) ELSE market_orders_bids
               /\ market_orders_asks' =
                     IF loc[t].retry_side = "Sell" THEN Tail(q) ELSE market_orders_asks
               /\ IF Head(q)[2] = 0
                  THEN UNCHANGED <<pc, loc>>
                  ELSE /\ SetLoc(t, [loc[t] EXCEPT
                               !.retry_orders = Append(@, Head(q)),
                               !.count = @ + 1,
                               !.popped = Append(@, [id |-> Head(q)[1],
                                                     quantity |-> Head(q)[2],
                                                     side |-> loc[t].retry_side])])
                       /\ Goto(t, "retry_pop")
    /\ UNCHANGED <<bids, asks, orders, cached_best_bid, cached_best_ask,
                   last_traded_at, clock, next_id, n_updates, held, pre>>

\* retry_market_orders_for_side: while let Some(..) = market_orders.pop() { .. }
retry_pop(t) ==
    /\ UNCHANGED exchange_vars
    /\ pc[t] = "retry_pop"
    /\ LET q == Queue(loc[t].retry_side) IN
          IF q = <<>>
          THEN /\ UNCHANGED <<market_orders_bids, market_orders_asks>>
               /\ IF loc[t].retry_orders = <<>>
                  THEN RetrySideDone(t, loc[t])
                  ELSE /\ Goto(t, "retry_next")
                       /\ UNCHANGED loc
          ELSE /\ market_orders_bids' =
                     IF loc[t].retry_side = "Buy" THEN Tail(q) ELSE market_orders_bids
               /\ market_orders_asks' =
                     IF loc[t].retry_side = "Sell" THEN Tail(q) ELSE market_orders_asks
               /\ IF Head(q)[2] = 0
                  THEN \* continue
                       /\ UNCHANGED <<pc, loc>>
                  ELSE /\ SetLoc(t, [loc[t] EXCEPT
                               !.retry_orders = Append(@, Head(q)),
                               !.count = @ + 1,
                               !.popped = Append(@, [id |-> Head(q)[1],
                                                     quantity |-> Head(q)[2],
                                                     side |-> loc[t].retry_side])])
                       /\ Goto(t, IF loc[t].count + 1 >= MaxOrdersPerRetry
                                  THEN "retry_next" ELSE "retry_pop")
    /\ UNCHANGED <<bids, asks, orders, cached_best_bid, cached_best_ask,
                   last_traded_at, clock, next_id, n_updates, held, pre>>

\* retry_next that pushes the entry back on its queue before it resubmits it
retry_next_requeues(t) ==
    /\ UNCHANGED exchange_vars
    /\ pc[t] = "retry_next"
    /\ IF loc[t].retry_orders = <<>>
       THEN /\ RetrySideDone(t, loc[t])
            /\ UNCHANGED <<market_orders_bids, market_orders_asks>>
       ELSE /\ SetLoc(t, [loc[t] EXCEPT
                    !.retry_orders = Tail(@),
                    !.m_id = Head(loc[t].retry_orders)[1],
                    !.m_quantity = Head(loc[t].retry_orders)[2],
                    !.m_side = loc[t].retry_side,
                    !.in_retry = TRUE,
                    !.snap = Book])
            /\ market_orders_bids' =
                  IF loc[t].retry_side = "Buy"
                  THEN Append(market_orders_bids, Head(loc[t].retry_orders))
                  ELSE market_orders_bids
            /\ market_orders_asks' =
                  IF loc[t].retry_side = "Sell"
                  THEN Append(market_orders_asks, Head(loc[t].retry_orders))
                  ELSE market_orders_asks
            /\ Goto(t, "smd_best")
    /\ UNCHANGED <<bids, asks, orders, cached_best_bid, cached_best_ask, last_traded_at,
                   clock, next_id, n_updates, held, pre>>

\* for (order_id, remaining_quantity) in retry_orders {
\*     match self.submit_market_order_direct(order_id, remaining_quantity, side) { .. } }
retry_next(t) ==
    /\ UNCHANGED exchange_vars
    /\ pc[t] = "retry_next"
    /\ IF loc[t].retry_orders = <<>>
       THEN RetrySideDone(t, loc[t])
       ELSE /\ SetLoc(t, [loc[t] EXCEPT
                    !.retry_orders = Tail(@),
                    !.m_id = Head(loc[t].retry_orders)[1],
                    !.m_quantity = Head(loc[t].retry_orders)[2],
                    !.m_side = loc[t].retry_side,
                    !.in_retry = TRUE,
                    !.snap = Book])
            /\ Goto(t, "smd_best")
    /\ UNCHANGED <<book_vars, clock, next_id, n_updates, held, pre>>

\* the public call has returned; the caller is free for its next call
Return(t) ==
    /\ UNCHANGED exchange_vars
    /\ pc[t] = "done"
    /\ Goto(t, "idle")
    /\ SetLoc(t, Loc0)
    /\ pre' = [pre EXCEPT ![t] = NoBook]
    /\ UNCHANGED <<book_vars, clock, next_id, n_updates, held>>

\* ------------------------------------------------------ add_to_limit_order
\* add_to_limit_order(id, price, quantity, side): the call begins
add_to_limit_order(t) ==
    /\ UNCHANGED exchange_vars
    /\ pc[t] = "idle"
    /\ CallsMade < MaxCalls
    /\ \E price \in Prices, quantity \in Quantities, side \in Sides :
          SetLoc(t, [Loc0 EXCEPT !.op = "limit", !.id = next_id, !.price = price,
                                 !.quantity = quantity, !.side = side,
                                 !.remaining_quantity = quantity, !.snap = Book])
    /\ next_id' = next_id + 1
    /\ pre' = [pre EXCEPT ![t] = Book]
    /\ Goto(t, "ao_best")
    /\ UNCHANGED <<book_vars, clock, n_updates, held>>

\* ao_best that matches whenever the opposing side has a best price
ao_best_any_price(t) ==
    /\ UNCHANGED exchange_vars
    /\ pc[t] = "ao_best"
    /\ BestReadable(t, Opposite(loc[t].side))
    /\ LET best == IF loc[t].side = "Buy" THEN best_ask ELSE best_bid IN
          /\ cached_best_ask' = IF loc[t].side = "Buy" THEN best.cache ELSE cached_best_ask
          /\ cached_best_bid' = IF loc[t].side = "Buy" THEN cached_best_bid ELSE best.cache
          /\ SetLoc(t, [loc[t] EXCEPT !.val = best.val.v])
          /\ Goto(t, IF best.val.some THEN "ao_match" ELSE "ao_insert")
    /\ UNCHANGED <<bids, asks, orders, market_orders_bids, market_orders_asks,
                   last_traded_at, clock, next_id, n_updates, held, pre>>

\* add_order: if let Some(price) = self.best_ask() { if price <= order.price() ..
\*            if let Some(price) = self.best_bid() { if price >= order.price() ..
ao_best(t) ==
    /\ UNCHANGED exchange_vars
    /\ pc[t] = "ao_best"
    /\ BestReadable(t, Opposite(loc[t].side))
    /\ LET best == IF loc[t].side = "Buy" THEN best_ask ELSE best_bid
           crosses == /\ best.val.some
                      /\ IF loc[t].side = "Buy"
                         THEN best.val.v <= loc[t].price
                         ELSE best.val.v >= loc[t].price IN
          /\ cached_best_ask' = IF loc[t].side = "Buy" THEN best.cache ELSE cached_best_ask
          /\ cached_best_bid' = IF loc[t].side = "Buy" THEN cached_best_bid ELSE best.cache
          /\ SetLoc(t, [loc[t] EXCEPT !.val = best.val.v])
          /\ Goto(t, IF crosses THEN "ao_match" ELSE "ao_insert")
    /\ UNCHANGED <<bids, asks, orders, market_orders_bids, market_orders_asks,
                   last_traded_at, clock, next_id, n_updates, held, pre>>

\* the position after the match and the removal of the filled orders
AoAfterMatch(l) == IF l.remaining_quantity > 0 THEN "ao_insert" ELSE "ao_ret"

\* if let Some(price_level) = self.asks.get(&price) { Some(price_level.match_order(..)) }
ao_match(t) ==
    /\ UNCHANGED exchange_vars
    /\ pc[t] = "ao_match"
    /\ EntryFree(t, Opposite(loc[t].side), loc[t].val)
    /\ LET m == SideMap(Opposite(loc[t].side))
           val == loc[t].val IN
          IF val \notin DOMAIN m
          THEN /\ Goto(t, "ao_insert")
               /\ UNCHANGED <<bids, asks, loc>>
          ELSE LET r == PriceLevel_match_order(m[val], loc[t].quantity) IN
               /\ bids' = IF loc[t].side = "Sell" THEN [bids EXCEPT ![val] = r.level] ELSE bids
               /\ asks' = IF loc[t].side = "Buy" THEN [asks EXCEPT ![val] = r.level] ELSE asks
               /\ SetLoc(t, [loc[t] EXCEPT
                       !.matched = TRUE,
                       !.filled_order_ids = r.filled_order_ids,
                       !.remaining_quantity = r.remaining_quantity,
                       !.traded = @ + (loc[t].quantity - r.remaining_quantity)])
               /\ Goto(t, "ao_time_load")
    /\ UNCHANGED <<orders, cached_best_bid, cached_best_ask, market_orders_bids,
                   market_orders_asks, last_traded_at, clock, next_id, n_updates, held, pre>>

\* self.orders.remove(filled_order_id).context(..)?
ao_index(t) ==
    /\ UNCHANGED exchange_vars
    /\ pc[t] = "ao_index"
    /\ EntryFree(t, "orders", Head(loc[t].filled_order_ids))
    /\ IF Head(loc[t].filled_order_ids) \notin DOMAIN orders
       THEN \* Err: "Order with ID {} not found in orders map"
            /\ SetLoc(t, [loc[t] EXCEPT !.result = Err("Error adding limit order")])
            /\ Goto(t, "done")
            /\ UNCHANGED orders
       ELSE /\ orders' = MapRemove(orders, Head(loc[t].filled_order_ids))
            /\ SetLoc(t, [loc[t] EXCEPT !.filled_order_ids = Tail(@)])
            /\ Goto(t, IF Tail(loc[t].filled_order_ids) = <<>>
                       THEN AoAfterMatch(loc[t]) ELSE "ao_index")
    /\ UNCHANGED <<bids, asks, cached_best_bid, cached_best_ask, market_orders_bids,
                   market_orders_asks, last_traded_at, clock, next_id, n_updates, held, pre>>

\* ao_insert without order.with_reduced_quantity(..): the order rests with the
\* quantity it came with
ao_insert_full_quantity(t) ==
    /\ UNCHANGED exchange_vars
    /\ pc[t] = "ao_insert"
    /\ EntryFree(t, loc[t].side, loc[t].price)
    /\ LET m == SideMap(loc[t].side)
           level == IF loc[t].price \in DOMAIN m THEN m[loc[t].price] ELSE PriceLevel_new
           added == PriceLevel_add_order(level, loc[t].id, loc[t].quantity) IN
          /\ bids' = IF loc[t].side = "Buy" THEN MapInsert(bids, loc[t].price, added) ELSE bids
          /\ asks' = IF loc[t].side = "Sell" THEN MapInsert(asks, loc[t].price, added) ELSE asks
    /\ held' = [held EXCEPT ![t] = @ \cup {<<loc[t].side, loc[t].price>>}]
    /\ Goto(t, "ao_insert_index")
    /\ UNCHANGED <<orders, cached_best_bid, cached_best_ask, market_orders_bids,
                   market_orders_asks, last_traded_at, clock, next_id, n_updates, loc, pre>>

\* let price_level = bids_or_asks.entry(order.price()).or_insert_with(..);
\* price_level.add_order(order);   (the entry guard lives to the end of the block)
ao_insert(t) ==
    /\ UNCHANGED exchange_vars
    /\ pc[t] = "ao_insert"
    /\ EntryFree(t, loc[t].side, loc[t].price)
    /\ LET m == SideMap(loc[t].side)
           level == IF loc[t].price \in DOMAIN m THEN m[loc[t].price] ELSE PriceLevel_new
           added == PriceLevel_add_order(level, loc[t].id, loc[t].remaining_quantity) IN
          /\ bids' = IF loc[t].side = "Buy" THEN MapInsert(bids, loc[t].price, added) ELSE bids
          /\ asks' = IF loc[t].side = "Sell" THEN MapInsert(asks, loc[t].price, added) ELSE asks
    /\ held' = [held EXCEPT ![t] = @ \cup {<<loc[t].side, loc[t].price>>}]
    /\ Goto(t, "ao_insert_index")
    /\ UNCHANGED <<orders, cached_best_bid, cached_best_ask, market_orders_bids,
                   market_orders_asks, last_traded_at, clock, next_id, n_updates, loc, pre>>

\* self.orders.insert(order.id(), (order.price(), order.side()));
ao_insert_index(t) ==
    /\ UNCHANGED exchange_vars
    /\ pc[t] = "ao_insert_index"
    /\ EntryFree(t, "orders", loc[t].id)
    /\ orders' = MapInsert(orders, loc[t].id, [price |-> loc[t].price, side |-> loc[t].side])
    /\ Goto(t, "ao_cache")
    /\ UNCHANGED <<bids, asks, cached_best_bid, cached_best_ask, market_orders_bids,
                   market_orders_asks, last_traded_at, clock, next_id, n_updates, held, loc, pre>>

\* ao_cache without the refresh of the cached best price
ao_cache_no_refresh(t) ==
    /\ UNCHANGED exchange_vars
    /\ pc[t] = "ao_cache"
    /\ held' = [held EXCEPT ![t] = @ \ {<<loc[t].side, loc[t].price>>}]
    /\ Goto(t, "ao_ret")
    /\ UNCHANGED <<bids, asks, orders, cached_best_bid, cached_best_ask,
                   market_orders_bids, market_orders_asks, last_traded_at, clock,
                   next_id, n_updates, loc, pre>>

\* match order.side() { Side::Buy => self.update_cached_best_bid(order.price()),
\*                      Side::Sell => self.update_cached_best_ask(order.price()) }
ao_cache(t) ==
    /\ UNCHANGED exchange_vars
    /\ pc[t] = "ao_cache"
    /\ cached_best_bid' = IF loc[t].side = "Buy"
                          THEN update_cached_best_bid(loc[t].price) ELSE cached_best_bid
    /\ cached_best_ask' = IF loc[t].side = "Sell"
                          THEN update_cached_best_ask(loc[t].price) ELSE cached_best_ask
    /\ held' = [held EXCEPT ![t] = @ \ {<<loc[t].side, loc[t].price>>}]
    /\ Goto(t, "ao_ret")
    /\ UNCHANGED <<bids, asks, orders, market_orders_bids, market_orders_asks,
                   last_traded_at, clock, next_id, n_updates, loc, pre>>

\* ao_ret that returns without the retry of the waiting market orders
ao_ret_no_retry(t) ==
    /\ UNCHANGED exchange_vars
    /\ pc[t] = "ao_ret"
    /\ SetLoc(t, [loc[t] EXCEPT !.result = Ok(loc[t].id)])
    /\ Goto(t, "done")
    /\ UNCHANGED <<book_vars, clock, next_id, n_updates, held, pre>>

\* add_order has returned Ok(order.id()): self.retry_unfilled_market_orders();
ao_ret(t) ==
    /\ UNCHANGED exchange_vars
    /\ pc[t] = "ao_ret"
    /\ SetLoc(t, [loc[t] EXCEPT !.result = Ok(loc[t].id), !.retry_side = "Buy",
                                !.retry_orders = <<>>, !.count = 0])
    /\ Goto(t, "retry_pop")
    /\ UNCHANGED <<book_vars, clock, next_id, n_updates, held, pre>>

\* ------------------------------------------------------------ update_order
\* the OrderUpdate values a caller passes (the id inside the update is the
\* order_id argument, as in process_modification)
Updates ==
    {[kind |-> "UpdatePrice", new_price |-> p, new_quantity |-> 0] : p \in Prices}
    \cup {[kind |-> "UpdateQuantity", new_price |-> 0, new_quantity |-> q] : q \in Quantities}
    \cup {[kind |-> "UpdatePriceAndQuantity", new_price |-> p, new_quantity |-> q] :
             p \in Prices, q \in Quantities}
    \cup {[kind |-> "Cancel", new_price |-> 0, new_quantity |-> 0]}

\* the ids a caller passes: those of the orders submitted so far
UpdatableIds == 1..(next_id - 1) \cup DOMAIN orders

\* update_order(update, order_id): the call begins
update_order(t) ==
    /\ UNCHANGED exchange_vars
    /\ pc[t] = "idle"
    /\ CallsMade < MaxCalls
    /\ n_updates' = n_updates + 1
    /\ \E id \in UpdatableIds, u \in Updates :
          SetLoc(t, [Loc0 EXCEPT !.op = "update", !.id = id, !.kind = u.kind,
                                 !.new_price = u.new_price,
                                 !.new_quantity = u.new_quantity, !.snap = Book])
    /\ pre' = [pre EXCEPT ![t] = Book]
    /\ Goto(t, "uo_lookup")
    /\ UNCHANGED <<book_vars, clock, next_id, held>>

\* the lookup with Ok(()) returned for an id that the index does not hold
uo_lookup_missing_ok(t) ==
    /\ UNCHANGED exchange_vars
    /\ pc[t] = "uo_lookup"
    /\ EntryFree(t, "orders", loc[t].id)
    /\ IF loc[t].id \notin DOMAIN orders
       THEN /\ SetLoc(t, [loc[t] EXCEPT !.result = Ok(0)])
            /\ Goto(t, "done")
            /\ UNCHANGED held
       ELSE /\ SetLoc(t, [loc[t] EXCEPT !.price = orders[loc[t].id].price,
                                        !.side = orders[loc[t].id].side])
            /\ held' = [held EXCEPT ![t] = @ \cup {<<"orders", loc[t].id>>}]
            /\ Goto(t, "uo_level")
    /\ UNCHANGED <<book_vars, clock, next_id, n_updates, pre>>

\* let order = self.orders.get_mut(&order_id);
uo_lookup(t) ==
    /\ UNCHANGED exchange_vars
    /\ pc[t] = "uo_lookup"
    /\ EntryFree(t, "orders", loc[t].id)
    /\ IF loc[t].id \notin DOMAIN orders
       THEN \* Err: "Order with ID {} not found"
            /\ SetLoc(t, [loc[t] EXCEPT !.result = Err("not found")])
            /\ Goto(t, "done")
            /\ UNCHANGED held
       ELSE /\ SetLoc(t, [loc[t] EXCEPT !.price = orders[loc[t].id].price,
                                        !.side = orders[loc[t].id].side])
            /\ held' = [held EXCEPT ![t] = @ \cup {<<"orders", loc[t].id>>}]
            /\ Goto(t, "uo_level")
    /\ UNCHANGED <<book_vars, clock, next_id, n_updates, pre>>

\* uo_level that, for a change of price, leaves the order in its old level
uo_level_copy_kept(t) ==
    /\ UNCHANGED exchange_vars
    /\ pc[t] = "uo_level"
    /\ EntryFree(t, loc[t].side, loc[t].price)
    /\ LET m == SideMap(loc[t].side)
           p == loc[t].price IN
          IF p \notin DOMAIN m
          THEN \* Err: "Order with ID {} not found in price levels"
               /\ SetLoc(t, [loc[t] EXCEPT !.result = Err("not found in price levels")])
               /\ held' = [held EXCEPT ![t] = {}]
               /\ Goto(t, "done")
               /\ UNCHANGED <<bids, asks>>
          ELSE IF PriceLevel_order_count(m[p]) = 0
          THEN \* remove() waits for the shard that val still guards: it never returns
               /\ held' = [held EXCEPT ![t] = @ \cup {<<loc[t].side, p>>}]
               /\ Goto(t, "uo_blocked")
               /\ UNCHANGED <<bids, asks, loc>>
          ELSE LET r == PriceLevel_update_order(m[p], loc[t].kind, loc[t].id,
                                                loc[t].new_quantity) IN
               /\ bids' = IF loc[t].side = "Buy" /\ loc[t].kind \in {"UpdateQuantity", "Cancel"}
                          THEN [bids EXCEPT ![p] = r.level] ELSE bids
               /\ asks' = IF loc[t].side = "Sell" /\ loc[t].kind \in {"UpdateQuantity", "Cancel"}
                          THEN [asks EXCEPT ![p] = r.level] ELSE asks
               /\ IF ~r.found
                  THEN /\ SetLoc(t, [loc[t] EXCEPT !.result = Ok(0)])
                       /\ held' = [held EXCEPT ![t] = {}]
                       /\ Goto(t, "done")
                  ELSE /\ SetLoc(t, [loc[t] EXCEPT !.quantity = r.order.qty])
                       /\ UNCHANGED held
                       /\ Goto(t, "uo_apply")
    /\ UNCHANGED <<orders, cached_best_bid, cached_best_ask, market_orders_bids,
                   market_orders_asks, last_traded_at, clock, next_id, n_updates, pre>>

\* let val = price_levels.get(&order.0);
\* if val.order_count() == 0 { price_levels.remove(val.key()); }
\* let order_update = val.value().update_order(update)?;  drop(val);
uo_level(t) ==
    /\ UNCHANGED exchange_vars
    /\ pc[t] = "uo_level"
    /\ EntryFree(t, loc[t].side, loc[t].price)
    /\ LET m == SideMap(loc[t].side)
           p == loc[t].price IN
          IF p \notin DOMAIN m
          THEN \* Err: "Order with ID {} not found in price levels"
               /\ SetLoc(t, [loc[t] EXCEPT !.result = Err("not found in price levels")])
               /\ held' = [held EXCEPT ![t] = {}]
               /\ Goto(t, "done")
               /\ UNCHANGED <<bids, asks>>
          ELSE IF PriceLevel_order_count(m[p]) = 0
          THEN \* remove() waits for the shard that val still guards: it never returns
               /\ held' = [held EXCEPT ![t] = @ \cup {<<loc[t].side, p>>}]
               /\ Goto(t, "uo_blocked")
               /\ UNCHANGED <<bids, asks, loc>>
          ELSE LET r == PriceLevel_update_order(m[p], loc[t].kind, loc[t].id,
                                                loc[t].new_quantity) IN
               /\ bids' = IF loc[t].side = "Buy" THEN [bids EXCEPT ![p] = r.level] ELSE bids
               /\ asks' = IF loc[t].side = "Sell" THEN [asks EXCEPT ![p] = r.level] ELSE asks
               /\ IF ~r.found
                  THEN /\ SetLoc(t, [loc[t] EXCEPT !.result = Ok(0)])
                       /\ held' = [held EXCEPT ![t] = {}]
                       /\ Goto(t, "done")
                  ELSE /\ SetLoc(t, [loc[t] EXCEPT !.quantity = r.order.qty])
                       /\ UNCHANGED held
                       /\ Goto(t, "uo_apply")
    /\ UNCHANGED <<orders, cached_best_bid, cached_best_ask, market_orders_bids,
                   market_orders_asks, last_traded_at, clock, next_id, n_updates, pre>>

\* uo_apply that leaves the price stored in the order index as it was
uo_apply_index_kept(t) ==
    /\ UNCHANGED exchange_vars
    /\ pc[t] = "uo_apply"
    /\ IF loc[t].kind \in {"UpdatePrice", "UpdatePriceAndQuantity"}
       THEN \* order.0 = new_price; price_levels.entry(new_price).or_insert_with(..).add_order(..)
            /\ EntryFree(t, loc[t].side, loc[t].new_price)
            /\ LET m == SideMap(loc[t].side)
                   np == loc[t].new_price
                   qty == IF loc[t].kind = "UpdatePrice"
                          THEN loc[t].quantity ELSE loc[t].new_quantity
                   level == IF np \in DOMAIN m THEN m[np] ELSE PriceLevel_new
                   added == PriceLevel_add_order(level, loc[t].id, qty) IN
                  /\ orders' = orders
                  /\ bids' = IF loc[t].side = "Buy" THEN MapInsert(bids, np, added) ELSE bids
                  /\ asks' = IF loc[t].side = "Sell" THEN MapInsert(asks, np, added) ELSE asks
            /\ UNCHANGED held
            /\ Goto(t, "uo_retain")
       ELSE IF loc[t].kind = "Cancel"
       THEN \* drop(order);
            /\ held' = [held EXCEPT ![t] = @ \ {<<"orders", loc[t].id>>}]
            /\ Goto(t, "uo_cancel")
            /\ UNCHANGED <<bids, asks, orders>>
       ELSE \* UpdateQuantity: only the local copy of the order is written
            /\ Goto(t, "uo_retain")
            /\ UNCHANGED <<bids, asks, orders, held>>
    /\ UNCHANGED <<cached_best_bid, cached_best_ask, market_orders_bids,
                   market_orders_asks, last_traded_at, clock, next_id, n_updates, loc, pre>>

\* uo_apply whose UpdateQuantity arm adds the updated order to its level, as
\* the arms that change the price do
uo_apply_quantity_readded(t) ==
    /\ UNCHANGED exchange_vars
    /\ pc[t] = "uo_apply"
    /\ IF loc[t].kind \in {"UpdatePrice", "UpdatePriceAndQuantity"}
       THEN \* order.0 = new_price; price_levels.entry(new_price).or_insert_with(..).add_order(..)
            /\ EntryFree(t, loc[t].side, loc[t].new_price)
            /\ LET m == SideMap(loc[t].side)
                   np == loc[t].new_price
                   qty == IF loc[t].kind = "UpdatePrice"
                          THEN loc[t].quantity ELSE loc[t].new_quantity
                   level == IF np \in DOMAIN m THEN m[np] ELSE PriceLevel_new
                   added == PriceLevel_add_order(level, loc[t].id, qty) IN
                  /\ orders' = [orders EXCEPT ![loc[t].id].price = np]
                  /\ bids' = IF loc[t].side = "Buy" THEN MapInsert(bids, np, added) ELSE bids
                  /\ asks' = IF loc[t].side = "Sell" THEN MapInsert(asks, np, added) ELSE asks
            /\ UNCHANGED held
            /\ Goto(t, "uo_retain")
       ELSE IF loc[t].kind = "Cancel"
       THEN \* drop(order);
            /\ held' = [held EXCEPT ![t] = @ \ {<<"orders", loc[t].id>>}]
            /\ Goto(t, "uo_cancel")
            /\ UNCHANGED <<bids, asks, orders>>
       ELSE \* UpdateQuantity: the updated copy is added to the level as well
            /\ EntryFree(t, loc[t].side, loc[t].price)
            /\ LET m == SideMap(loc[t].side)
                   added == PriceLevel_add_order(m[loc[t].price], loc[t].id,
                                                 loc[t].new_quantity) IN
                  /\ bids' = IF loc[t].side = "Buy"
                             THEN MapInsert(bids, loc[t].price, added) ELSE bids
                  /\ asks' = IF loc[t].side = "Sell"
                             THEN MapInsert(asks, loc[t].price, added) ELSE asks
            /\ Goto(t, "uo_retain")
            /\ UNCHANGED <<orders, held>>
    /\ UNCHANGED <<cached_best_bid, cached_best_ask, market_orders_bids,
                   market_orders_asks, last_traded_at, clock, next_id, n_updates, loc, pre>>

\* match update { UpdatePrice .. UpdateQuantity .. UpdatePriceAndQuantity .. Cancel .. }
uo_apply(t) ==
    /\ UNCHANGED exchange_vars
    /\ pc[t] = "uo_apply"
    /\ IF loc[t].kind \in {"UpdatePrice", "UpdatePriceAndQuantity"}
       THEN \* order.0 = new_price; price_levels.entry(new_price).or_insert_with(..).add_order(..)
            /\ EntryFree(t, loc[t].side, loc[t].new_price)
            /\ LET m == SideMap(loc[t].side)
                   np == loc[t].new_price
                   qty == IF loc[t].kind = "UpdatePrice"
                          THEN loc[t].quantity ELSE loc[t].new_quantity
                   level == IF np \in DOMAIN m THEN m[np] ELSE PriceLevel_new
                   added == PriceLevel_add_order(level, loc[t].id, qty) IN
                  /\ orders' = [orders EXCEPT ![loc[t].id].price = np]
                  /\ bids' = IF loc[t].side = "Buy" THEN MapInsert(bids, np, added) ELSE bids
                  /\ asks' = IF loc[t].side = "Sell" THEN MapInsert(asks, np, added) ELSE asks
            /\ UNCHANGED held
            /\ Goto(t, "uo_retain")
       ELSE IF loc[t].kind = "Cancel"
       THEN \* drop(order);
            /\ held' = [held EXCEPT ![t] = @ \ {<<"orders", loc[t].id>>}]
            /\ Goto(t, "uo_cancel")
            /\ UNCHANGED <<bids, asks, orders>>
       ELSE \* UpdateQuantity: only the local copy of the order is written
            /\ Goto(t, "uo_retain")
            /\ UNCHANGED <<bids, asks, orders, held>>
    /\ UNCHANGED <<cached_best_bid, cached_best_ask, market_orders_bids,
                   market_orders_asks, last_traded_at, clock, next_id, n_updates, loc, pre>>

\* uo_cancel that leaves the order in the order index
uo_cancel_index_kept(t) ==
    /\ UNCHANGED exchange_vars
    /\ pc[t] = "uo_cancel"
    /\ EntryFree(t, "orders", loc[t].id)
    /\ Goto(t, "uo_retain")
    /\ UNCHANGED <<bids, asks, orders, cached_best_bid, cached_best_ask, market_orders_bids,
                   market_orders_asks, last_traded_at, clock, next_id, n_updates, held,
                   loc, pre>>

\* self.orders.remove(&order_id).ok_or_else(|| anyhow!(".. disappeared from orders map"))?;
uo_cancel(t) ==
    /\ UNCHANGED exchange_vars
    /\ pc[t] = "uo_cancel"
    /\ EntryFree(t, "orders", loc[t].id)
    /\ IF loc[t].id \notin DOMAIN orders
       THEN /\ SetLoc(t, [loc[t] EXCEPT !.result = Err("disappeared from orders map")])
            /\ Goto(t, "done")
            /\ UNCHANGED orders
       ELSE /\ orders' = MapRemove(orders, loc[t].id)
            /\ Goto(t, "uo_retain")
            /\ UNCHANGED loc
    /\ UNCHANGED <<bids, asks, cached_best_bid, cached_best_ask, market_orders_bids,
                   market_orders_asks, last_traded_at, clock, next_id, n_updates, held, pre>>

\* price_levels.retain(|_, v| v.order_count() > 0);  Ok(())
uo_retain(t) ==
    /\ UNCHANGED exchange_vars
    /\ pc[t] = "uo_retain"
    /\ MapFree(t, loc[t].side)
    /\ bids' = IF loc[t].side = "Buy" THEN RetainNonEmpty(bids) ELSE bids
    /\ asks' = IF loc[t].side = "Sell" THEN RetainNonEmpty(asks) ELSE asks
    /\ held' = [held EXCEPT ![t] = {}]
    /\ SetLoc(t, [loc[t] EXCEPT !.result = Ok(0)])
    /\ Goto(t, "done")
    /\ UNCHANGED <<orders, cached_best_bid, cached_best_ask, market_orders_bids,
                   market_orders_asks, last_traded_at, clock, next_id, n_updates, pre>>

\* -------------------------------------------------------- parse_price_cents
\* A &str is the sequence of its characters; the characters the inputs are
\* drawn from: three digits, the decimal point, the signs, a letter and the
\* euro sign, whose UTF-8 encoding has three bytes
Digits == {"0", "5", "9"}
Chars == Digits \cup {".", "+", "-", "x", "EURO"}
MaxLen == 5
Strings == UNION {[1..n -> Chars] : n \in 0..MaxLen}

\* the bytes of a character, and of a string
Utf8(c) == IF c = "EURO" THEN <<"E2", "82", "AC">> ELSE <<c>>
RECURSIVE Bytes(_)
Bytes(s) == IF s = <<>> THEN <<>> ELSE Utf8(Head(s)) \o Bytes(Tail(s))

\* a byte that continues a character: a slice may not begin or end before it
Continuation(b) == b \in {"82", "AC"}

DigitValue(b) == CASE b = "0" -> 0 [] b = "5" -> 5 [] b = "9" -> 9

RECURSIVE DigitsValue(_)
DigitsValue(b) ==
    IF b = <<>> THEN 0
    ELSE DigitsValue(SubSeq(b, 1, Len(b) - 1)) * 10 + DigitValue(b[Len(b)])

\* str::parse::<u64>: an optional '+', then one digit or more and nothing
\* else (the inputs are too short for a value above u64::MAX)
ParseU64(b) ==
    IF b = <<>> THEN None
    ELSE LET digits == IF b[1] = "+" THEN Tail(b) ELSE b IN
         IF digits = <<>> \/ \E i \in 1..Len(digits) : digits[i] \notin Digits
         THEN None
         ELSE Some(DigitsValue(digits))

\* s.find('.'): the byte offset of the first '.', counted from 0
Find(b) ==
    LET at == {i \in 1..Len(b) : b[i] = "."} IN
    IF at = {} THEN None ELSE Some((CHOOSE i \in at : \A j \in at : i <= j) - 1)

\* parse_price_cents with a one-digit fraction taken as hundredths
parse_price_cents_unpadded(s) ==
    LET b == Bytes(s)
        dot_pos == Find(b)
    IN  IF dot_pos.some
        THEN LET integer_part == ParseU64(SubSeq(b, 1, dot_pos.v))
                 fractional_str == SubSeq(b, dot_pos.v + 2, Len(b))
             IN  IF ~integer_part.some THEN Returned(None)
                 ELSE IF Len(fractional_str) = 0 THEN Returned(Some(integer_part.v * 100))
                 ELSE IF Len(fractional_str) > 2 /\ Continuation(fractional_str[3])
                 THEN Panicked
                 ELSE LET fractional ==
                              IF Len(fractional_str) <= 2 THEN ParseU64(fractional_str)
                              ELSE ParseU64(SubSeq(fractional_str, 1, 2))
                      IN  IF ~fractional.some THEN Returned(None)
                          ELSE Returned(Some(integer_part.v * 100 + fractional.v))
        ELSE LET v == ParseU64(b) IN
             IF v.some THEN Returned(Some(v.v * 100)) ELSE Returned(None)

\* parse_price_cents(s): the price in cents, None, or a panic where the
\* fraction is cut inside a character
parse_price_cents(s) ==
    LET b == Bytes(s)
        dot_pos == Find(b)
    IN  IF dot_pos.some
        THEN LET integer_part == ParseU64(SubSeq(b, 1, dot_pos.v))
                 fractional_str == SubSeq(b, dot_pos.v + 2, Len(b))
             IN  IF ~integer_part.some THEN Returned(None)
                 ELSE IF Len(fractional_str) = 0 THEN Returned(Some(integer_part.v * 100))
                 ELSE IF Len(fractional_str) > 2 /\ Continuation(fractional_str[3])
                 THEN Panicked
                 ELSE LET parsed == IF Len(fractional_str) <= 2 THEN ParseU64(fractional_str)
                                    ELSE ParseU64(SubSeq(fractional_str, 1, 2))
                          fractional == IF Len(fractional_str) = 1 THEN parsed.v * 10
                                        ELSE parsed.v
                      IN  IF ~parsed.some THEN Returned(None)
                          ELSE Returned(Some(integer_part.v * 100 + fractional))
        ELSE LET v == ParseU64(b) IN
             IF v.some THEN Returned(Some(v.v * 100)) ELSE Returned(None)

\* a caller passes a string to parse_price_cents
parse_price(t) ==
    /\ pc[t] = "idle"
    /\ \E s \in Strings :
          SetLoc(t, [Loc0 EXCEPT !.op = "parse", !.s = s, !.parsed = parse_price_cents(s)])
    /\ Goto(t, "done")
    /\ UNCHANGED <<book_vars, exchange_vars, clock, next_id, n_updates, held, pre>>

\* ------------------------------------------- parse_price_cents, overflow
\* An integer part above u64::MAX / 100 has 18 digits or more, more than the
\* inputs above hold and than a 32-bit integer holds. For the overflow cases
\* the u64 is scaled down to a word of 10 bits: the values 0..WordMax, with
\* the same checked str::parse and the same unchecked multiply and add.
WordMax == 1023

\* str::parse::<u64> on that word: as ParseU64, and Err(PosOverflow) for a
\* value above the word's maximum
ParseWord(b) ==
    LET v == ParseU64(b) IN
    IF v.some /\ v.v > WordMax THEN None ELSE v

\* integer_part * 100 + fractional, * and + of u64: a result above the word's
\* maximum panics where overflow checks are compiled in (the debug profile)
\* and wraps where they are not (the release profile)
MulAdd(integer_part, fractional) ==
    LET exact == integer_part * 100 + fractional IN
    IF exact <= WordMax THEN {Returned(Some(exact))}
    ELSE {Panicked, Returned(Some(exact % (WordMax + 1)))}

\* parse_price_cents on that word: the outcomes the builds of it produce
parse_price_cents_word(s) ==
    LET b == Bytes(s)
        dot_pos == Find(b)
    IN  IF dot_pos.some
        THEN LET integer_part == ParseWord(SubSeq(b, 1, dot_pos.v))
                 fractional_str == SubSeq(b, dot_pos.v + 2, Len(b))
             IN  IF ~integer_part.some THEN {Returned(None)}
                 ELSE IF Len(fractional_str) = 0 THEN MulAdd(integer_part.v, 0)
                 ELSE IF Len(fractional_str) > 2 /\ Continuation(fractional_str[3])
                 THEN {Panicked}
                 ELSE LET parsed == IF Len(fractional_str) <= 2 THEN ParseWord(fractional_str)
                                    ELSE ParseWord(SubSeq(fractional_str, 1, 2))
                          fractional == IF Len(fractional_str) = 1 THEN parsed.v * 10
                                        ELSE parsed.v
                      IN  IF ~parsed.some THEN {Returned(None)}
                          ELSE MulAdd(integer_part.v, fractional)
        ELSE LET v == ParseWord(b) IN
             IF v.some THEN MulAdd(v.v, 0) ELSE {Returned(None)}

\* a caller passes a string to parse_price_cents, built with either profile
parse_price_word(t) ==
    /\ pc[t] = "idle"
    /\ \E s \in Strings :
          \E outcome \in parse_price_cents_word(s) :
             SetLoc(t, [Loc0 EXCEPT !.op = "parse", !.s = s, !.parsed = outcome])
    /\ Goto(t, "done")
    /\ UNCHANGED <<book_vars, exchange_vars, clock, next_id, n_updates, held, pre>>

\* ------------------------------------------------- add_exchange_price_level
Exchanges == {"Binance", "Coinbase", "Kraken"}

ExchangeLevels == [bids |-> exchange_bids_price_level, asks |-> exchange_asks_price_level]

\* the map of one side
ExchangeMap(side) ==
    IF side = "Buy" THEN exchange_bids_price_level ELSE exchange_asks_price_level

\* the add_exchange_price_level calls begun so far
RECURSIVE CallCount(_)
CallCount(S) ==
    IF S = {} THEN 0
    ELSE LET k == CHOOSE k \in S : TRUE IN level_calls[k].n + CallCount(S \ {k})
LevelCallsMade == CallCount(DOMAIN level_calls)

\* DashMap::entry(key) waits while another caller holds the entry of the key
KeyFree(t, side, key) ==
    \A u \in AllCallers \ {t} :
       ~(loc[u].guard /\ loc[u].side = side /\ <<loc[u].price, loc[u].exchange>> = key)

\* add_exchange_price_level(price, exchange, side, quantity): the call begins
add_exchange_price_level(t) ==
    /\ pc[t] = "idle"
    /\ LevelCallsMade < MaxCalls
    /\ \E price \in Prices, exchange \in Exchanges, side \in Sides, quantity \in Quantities :
          LET cell == <<side, price, exchange>>
              made == IF cell \in DOMAIN level_calls THEN level_calls[cell]
                      ELSE [n |-> 0, sum |-> 0]
          IN  /\ SetLoc(t, [Loc0 EXCEPT !.op = "level", !.price = price,
                                        !.exchange = exchange, !.side = side,
                                        !.quantity = quantity, !.xpre = ExchangeLevels])
              /\ level_calls' = MapInsert(level_calls, cell,
                                          [n |-> made.n + 1, sum |-> made.sum + quantity])
    /\ Goto(t, "aepl_entry")
    /\ UNCHANGED <<book_vars, all_exchanges_vars, clock, next_id, n_updates, held, pre,
                   exchange_bids_price_level, exchange_asks_price_level>>

\* the map of the side after .entry(key).or_insert_with(BTreeMap::new)
WithEntry(m, key) == IF key \in DOMAIN m THEN m ELSE MapInsert(m, key, EmptyMap)

\* .entry(key).or_insert_with(BTreeMap::new) without waiting for the entry
aepl_entry_unguarded(t) ==
    /\ pc[t] = "aepl_entry"
    /\ LET key == <<loc[t].price, loc[t].exchange>> IN
       /\ exchange_bids_price_level' =
             IF loc[t].side = "Buy" THEN WithEntry(exchange_bids_price_level, key)
             ELSE exchange_bids_price_level
       /\ exchange_asks_price_level' =
             IF loc[t].side = "Sell" THEN WithEntry(exchange_asks_price_level, key)
             ELSE exchange_asks_price_level
    /\ SetLoc(t, [loc[t] EXCEPT !.guard = TRUE])
    /\ Goto(t, "aepl_level")
    /\ UNCHANGED <<book_vars, all_exchanges_vars, clock, next_id, n_updates, held, pre, level_calls>>

\* .entry(key).or_insert_with(BTreeMap::new) on the maps of both sides
aepl_entry_both_sides(t) ==
    /\ pc[t] = "aepl_entry"
    /\ LET key == <<loc[t].price, loc[t].exchange>> IN
       /\ KeyFree(t, loc[t].side, key)
       /\ exchange_bids_price_level' = WithEntry(exchange_bids_price_level, key)
       /\ exchange_asks_price_level' = WithEntry(exchange_asks_price_level, key)
    /\ SetLoc(t, [loc[t] EXCEPT !.guard = TRUE])
    /\ Goto(t, "aepl_level")
    /\ UNCHANGED <<book_vars, all_exchanges_vars, clock, next_id, n_updates, held, pre, level_calls>>

\* let mut price_level = self.exchange_.._price_level.entry(key)
\*     .or_insert_with(BTreeMap::new);   the RefMut is held to the end of the arm
aepl_entry(t) ==
    /\ pc[t] = "aepl_entry"
    /\ LET key == <<loc[t].price, loc[t].exchange>> IN
       /\ KeyFree(t, loc[t].side, key)
       /\ exchange_bids_price_level' =
             IF loc[t].side = "Buy" THEN WithEntry(exchange_bids_price_level, key)
             ELSE exchange_bids_price_level
       /\ exchange_asks_price_level' =
             IF loc[t].side = "Sell" THEN WithEntry(exchange_asks_price_level, key)
             ELSE exchange_asks_price_level
    /\ SetLoc(t, [loc[t] EXCEPT !.guard = TRUE])
    /\ Goto(t, "aepl_level")
    /\ UNCHANGED <<book_vars, all_exchanges_vars, clock, next_id, n_updates, held, pre, level_calls>>

\* the map of the side with the quantity q stored at the price under the key
WithQuantity(m, key, price, q) == [m EXCEPT ![key] = MapInsert(m[key], price, q)]

\* let entry = price_level.entry(price).or_insert(0);  and the load of *entry
aepl_level(t) ==
    /\ pc[t] = "aepl_level"
    /\ LET key == <<loc[t].price, loc[t].exchange>>
           price_level == ExchangeMap(loc[t].side)[key]
           entry == IF loc[t].price \in DOMAIN price_level THEN price_level[loc[t].price]
                    ELSE 0
       IN  /\ exchange_bids_price_level' =
                 IF loc[t].side = "Buy"
                 THEN WithQuantity(exchange_bids_price_level, key, loc[t].price, entry)
                 ELSE exchange_bids_price_level
           /\ exchange_asks_price_level' =
                 IF loc[t].side = "Sell"
                 THEN WithQuantity(exchange_asks_price_level, key, loc[t].price, entry)
                 ELSE exchange_asks_price_level
           /\ SetLoc(t, [loc[t] EXCEPT !.entry = entry])
    /\ Goto(t, "aepl_add")
    /\ UNCHANGED <<book_vars, all_exchanges_vars, clock, next_id, n_updates, held, pre, level_calls>>

\* *entry = quantity: the quantity stored is replaced
aepl_add_overwrite(t) ==
    /\ pc[t] = "aepl_add"
    /\ LET key == <<loc[t].price, loc[t].exchange>> IN
       /\ exchange_bids_price_level' =
             IF loc[t].side = "Buy"
             THEN WithQuantity(exchange_bids_price_level, key, loc[t].price, loc[t].quantity)
             ELSE exchange_bids_price_level
       /\ exchange_asks_price_level' =
             IF loc[t].side = "Sell"
             THEN WithQuantity(exchange_asks_price_level, key, loc[t].price, loc[t].quantity)
             ELSE exchange_asks_price_level
    /\ SetLoc(t, [loc[t] EXCEPT !.guard = FALSE, !.result = Ok(0)])
    /\ Goto(t, "done")
    /\ UNCHANGED <<book_vars, all_exchanges_vars, clock, next_id, n_updates, held, pre, level_calls>>

\* *entry += quantity;  the store, and the RefMut dropped at the end of the arm
\* (the quantities are too small for the sum to pass u64::MAX)
aepl_add(t) ==
    /\ pc[t] = "aepl_add"
    /\ LET key == <<loc[t].price, loc[t].exchange>>
           sum == loc[t].entry + loc[t].quantity
       IN  /\ exchange_bids_price_level' =
                 IF loc[t].side = "Buy"
                 THEN WithQuantity(exchange_bids_price_level, key, loc[t].price, sum)
                 ELSE exchange_bids_price_level
           /\ exchange_asks_price_level' =
                 IF loc[t].side = "Sell"
                 THEN WithQuantity(exchange_asks_price_level, key, loc[t].price, sum)
                 ELSE exchange_asks_price_level
    /\ SetLoc(t, [loc[t] EXCEPT !.guard = FALSE, !.result = Ok(0)])
    /\ Goto(t, "done")
    /\ UNCHANGED <<book_vars, all_exchanges_vars, clock, next_id, n_updates, held, pre, level_calls>>

\* ---------------------------------------------------------- specifications
\* the steps of add_to_limit_order
LimitStep(t) ==
    \/ add_to_limit_order(t)
    \/ ao_best(t)
    \/ ao_match(t)
    \/ ao_index(t)
    \/ ao_insert(t)
    \/ ao_insert_index(t)
    \/ ao_cache(t)
    \/ ao_ret(t)

\* the steps of submit_market_order
MarketStep(t) ==
    \/ submit_market_order(t)
    \/ smd_best(t)
    \/ smd_match(t)
    \/ smd_remove(t)
    \/ smd_index(t)
    \/ smd_enqueue(t)
    \/ smd_ret(t)

\* the steps both share: the timestamp, the retry of queued market orders, the return
SharedStep(t) ==
    \/ current_time_millis(t)
    \/ update_last_trade_time(t)
    \/ retry_pop(t)
    \/ retry_next(t)
    \/ Return(t)

\* the steps of update_order
UpdateStep(t) ==
    \/ update_order(t)
    \/ uo_lookup(t)
    \/ uo_level(t)
    \/ uo_apply(t)
    \/ uo_cancel(t)
    \/ uo_retain(t)

\* one caller: calls run one after another
Next == LimitStep(1) \/ MarketStep(1) \/ SharedStep(1) \/ UpdateStep(1)
Spec == Init /\ [][Next]_vars

\* the steps of a call in progress: every step but the beginning of a call
Running(t) ==
    \/ ao_best(t) \/ ao_match(t) \/ ao_index(t) \/ ao_insert(t)
    \/ ao_insert_index(t) \/ ao_cache(t) \/ ao_ret(t)
    \/ smd_best(t) \/ smd_match(t) \/ smd_remove(t) \/ smd_index(t)
    \/ smd_enqueue(t) \/ smd_ret(t)
    \/ current_time_millis(t) \/ update_last_trade_time(t)
    \/ retry_pop(t) \/ retry_next(t) \/ Return(t)
    \/ uo_lookup(t) \/ uo_level(t) \/ uo_apply(t) \/ uo_cancel(t) \/ uo_retain(t)

\* one caller whose calls, once begun, run on: no operation suspends, every
\* call runs to completion without yielding
SpecLive == Spec /\ WF_vars(Running(1))

\* one caller that only calls add_to_limit_order: the retry queues stay empty,
\* so the retry trigger pops nothing and retry_next is never reached
NextLimit ==
    \/ LimitStep(1)
    \/ current_time_millis(1)
    \/ update_last_trade_time(1)
    \/ retry_pop(1)
    \/ Return(1)
SpecLimit == Init /\ [][NextLimit]_vars

\* the book after add_to_limit_order(1, price, quantity, side) on a new book,
\* for a quantity that one market order can, and one that it cannot, fill
InitConc ==
    \E side \in Sides, price \in Prices, quantity \in {MaxQty, MaxQty + 1} :
       LET level == PriceLevel_add_order(PriceLevel_new, 1, quantity) IN
       /\ bids = IF side = "Buy" THEN MapInsert(EmptyMap, price, level) ELSE EmptyMap
       /\ asks = IF side = "Sell" THEN MapInsert(EmptyMap, price, level) ELSE EmptyMap
       /\ orders = MapInsert(EmptyMap, 1, [price |-> price, side |-> side])
       /\ cached_best_bid = IF side = "Buy" THEN price ELSE BidSentinel
       /\ cached_best_ask = IF side = "Sell" THEN price ELSE AskSentinel
       /\ market_orders_bids = <<>>
       /\ market_orders_asks = <<>>
       /\ last_traded_at = 0
       /\ clock = 1
       /\ next_id = 2
       /\ n_updates = 0
       /\ held = [t \in AllCallers |-> {}]
       /\ pc = [t \in AllCallers |-> "idle"]
       /\ loc = [t \in AllCallers |-> Loc0]
       /\ pre = [t \in AllCallers |-> NoBook]
       /\ best_bid_all_exchanges = OrderBook_new.best_bid_all_exchanges
       /\ best_ask_all_exchanges = OrderBook_new.best_ask_all_exchanges
       /\ exchange_bids_price_level = EmptyMap
       /\ exchange_asks_price_level = EmptyMap
       /\ level_calls = EmptyMap

\* two concurrent callers on a book that holds one resting order: caller 1
\* submits limit and market orders, caller 2 market orders
NextConc ==
    \/ LimitStep(1)
    \/ \E t \in AllCallers : MarketStep(t) \/ SharedStep(t)
SpecConc == InitConc /\ [][NextConc]_vars

\* two concurrent callers on that book: caller 1 submits limit and market
\* orders, caller 2 calls update_order
NextUpdateConc ==
    \/ LimitStep(1)
    \/ MarketStep(1)
    \/ UpdateStep(2)
    \/ \E t \in AllCallers : SharedStep(t)
SpecUpdateConc == InitConc /\ [][NextUpdateConc]_vars

\* the same two callers, each on a thread of its own that the scheduler
\* keeps running: a call that can take its next step takes it
SpecUpdateConcLive ==
    SpecUpdateConc /\ WF_vars(Running(1)) /\ WF_vars(Running(2))

\* the book after add_to_limit_order of three buys of quantity 1 at the prices
\* 1, 2 and 3 (ids above those of the calls that follow), as in
\* test_multiple_price_levels_market_order
InitThreeBids ==
    /\ bids = [p \in 1..3 |-> PriceLevel_add_order(PriceLevel_new, MaxCalls + p, 1)]
    /\ asks = EmptyMap
    /\ orders = [id \in (MaxCalls + 1)..(MaxCalls + 3) |->
                    [price |-> id - MaxCalls, side |-> "Buy"]]
    /\ cached_best_bid = 3
    /\ cached_best_ask = AskSentinel
    /\ market_orders_bids = <<>>
    /\ market_orders_asks = <<>>
    /\ last_traded_at = 0
    /\ clock = 1
    /\ next_id = 1
    /\ n_updates = 0
    /\ held = [t \in AllCallers |-> {}]
    /\ pc = [t \in AllCallers |-> "idle"]
    /\ loc = [t \in AllCallers |-> Loc0]
    /\ pre = [t \in AllCallers |-> NoBook]
    /\ best_bid_all_exchanges = OrderBook_new.best_bid_all_exchanges
    /\ best_ask_all_exchanges = OrderBook_new.best_ask_all_exchanges
    /\ exchange_bids_price_level = EmptyMap
    /\ exchange_asks_price_level = EmptyMap
    /\ level_calls = EmptyMap

\* one caller that submits market orders to that book; its calls run on
NextThreeBids == MarketStep(1) \/ SharedStep(1)
SpecThreeBids == InitThreeBids /\ [][NextThreeBids]_vars /\ WF_vars(Running(1))

\* one caller that submits limit and market orders and updates to the book of
\* three bids
NextResting == LimitStep(1) \/ MarketStep(1) \/ SharedStep(1) \/ UpdateStep(1)
SpecResting == InitThreeBids /\ [][NextResting]_vars

\* the book after add_to_limit_order(1, 2, 1, Buy) and
\* add_to_limit_order(1, 3, 1, Buy): the id is an argument of the caller, who
\* passed the same one twice; the second insert replaced the index entry
InitSameId ==
    /\ bids = [p \in 2..3 |-> PriceLevel_add_order(PriceLevel_new, 1, 1)]
    /\ asks = EmptyMap
    /\ orders = MapInsert(EmptyMap, 1, [price |-> 3, side |-> "Buy"])
    /\ cached_best_bid = 3
    /\ cached_best_ask = AskSentinel
    /\ market_orders_bids = <<>>
    /\ market_orders_asks = <<>>
    /\ last_traded_at = 0
    /\ clock = 1
    /\ next_id = 2
    /\ n_updates = 0
    /\ held = [t \in AllCallers |-> {}]
    /\ pc = [t \in AllCallers |-> "idle"]
    /\ loc = [t \in AllCallers |-> Loc0]
    /\ pre = [t \in AllCallers |-> NoBook]
    /\ best_bid_all_exchanges = OrderBook_new.best_bid_all_exchanges
    /\ best_ask_all_exchanges = OrderBook_new.best_ask_all_exchanges
    /\ exchange_bids_price_level = EmptyMap
    /\ exchange_asks_price_level = EmptyMap
    /\ level_calls = EmptyMap

\* two concurrent callers on that book: caller 1 submits limit orders,
\* caller 2 market orders
NextSameId ==
    \/ LimitStep(1)
    \/ MarketStep(2)
    \/ \E t \in AllCallers : SharedStep(t)
SpecSameId == InitSameId /\ [][NextSameId]_vars

\* two concurrent callers on that book: caller 1 submits limit and market
\* orders, caller 2 calls update_order
SpecSameIdUpdate == InitSameId /\ [][NextUpdateConc]_vars

\* a book without liquidity after MaxOrdersPerRetry + 1 calls of
\* submit_market_order of quantity 1 on each side (ids above those of the
\* calls that follow): every one of them waits in its retry queue
InitQueued ==
    /\ bids = EmptyMap
    /\ asks = EmptyMap
    /\ orders = EmptyMap
    /\ cached_best_bid = BidSentinel
    /\ cached_best_ask = AskSentinel
    /\ market_orders_bids = [i \in 1..(MaxOrdersPerRetry + 1) |-> <<MaxCalls + i, 1>>]
    /\ market_orders_asks =
          [i \in 1..(MaxOrdersPerRetry + 1) |-> <<MaxCalls + MaxOrdersPerRetry + 1 + i, 1>>]
    /\ last_traded_at = 0
    /\ clock = 1
    /\ next_id = 1
    /\ n_updates = 0
    /\ held = [t \in AllCallers |-> {}]
    /\ pc = [t \in AllCallers |-> "idle"]
    /\ loc = [t \in AllCallers |-> Loc0]
    /\ pre = [t \in AllCallers |-> NoBook]
    /\ best_bid_all_exchanges = OrderBook_new.best_bid_all_exchanges
    /\ best_ask_all_exchanges = OrderBook_new.best_ask_all_exchanges
    /\ exchange_bids_price_level = EmptyMap
    /\ exchange_asks_price_level = EmptyMap
    /\ level_calls = EmptyMap

\* one caller that submits limit and market orders to that book; its calls
\* run on. The retry that follows the insertion of a limit order resubmits
\* four market orders of quantity 1, which take all of it, so no later limit
\* order finds a level to cross: ao_match and ao_index are never reached
NextQueued ==
    \/ add_to_limit_order(1)
    \/ ao_best(1)
    \/ ao_insert(1)
    \/ ao_insert_index(1)
    \/ ao_cache(1)
    \/ ao_ret(1)
    \/ MarketStep(1)
    \/ SharedStep(1)
SpecQueued == InitQueued /\ [][NextQueued]_vars /\ WF_vars(Running(1))

\* the book after submit_market_order(1, MaxQty, Sell) on a new book: the
\* order found no bid, was pushed on the retry queue of the sells in full,
\* and the call returned Ok(MaxQty)
InitQueuedSell ==
    /\ bids = EmptyMap
    /\ asks = EmptyMap
    /\ orders = EmptyMap
    /\ cached_best_bid = BidSentinel
    /\ cached_best_ask = AskSentinel
    /\ market_orders_bids = <<>>
    /\ market_orders_asks = <<<<1, MaxQty>>>>
    /\ last_traded_at = 0
    /\ clock = 1
    /\ next_id = 2
    /\ n_updates = 0
    /\ held = [t \in AllCallers |-> {}]
    /\ pc = [t \in AllCallers |-> "idle"]
    /\ loc = [t \in AllCallers |-> Loc0]
    /\ pre = [t \in AllCallers |-> NoBook]
    /\ best_bid_all_exchanges = OrderBook_new.best_bid_all_exchanges
    /\ best_ask_all_exchanges = OrderBook_new.best_ask_all_exchanges
    /\ exchange_bids_price_level = EmptyMap
    /\ exchange_asks_price_level = EmptyMap
    /\ level_calls = EmptyMap

\* two concurrent callers on that book: caller 1 submits limit and market
\* orders, caller 2 market orders; the retry trigger of either resubmits the
\* queued sell
SpecQueuedSell == InitQueuedSell /\ [][NextConc]_vars

\* the steps of add_exchange_price_level
ExchangeStep(t) ==
    \/ add_exchange_price_level(t)
    \/ aepl_entry(t)
    \/ aepl_level(t)
    \/ aepl_add(t)
    \/ Return(t)

\* one caller that adds exchange price levels, call after call
NextExchange == ExchangeStep(1)
SpecExchange == Init /\ [][NextExchange]_vars

\* the book after add_exchange_price_level(2, Binance, Sell, quantity) on a new book
InitExchangeConc ==
    \E quantity \in Quantities :
       /\ bids = EmptyMap
       /\ asks = EmptyMap
       /\ orders = EmptyMap
       /\ cached_best_bid = BidSentinel
       /\ cached_best_ask = AskSentinel
       /\ market_orders_bids = <<>>
       /\ market_orders_asks = <<>>
       /\ last_traded_at = 0
       /\ clock = 1
       /\ next_id = 1
       /\ n_updates = 0
       /\ held = [t \in AllCallers |-> {}]
       /\ pc = [t \in AllCallers |-> "idle"]
       /\ loc = [t \in AllCallers |-> Loc0]
       /\ pre = [t \in AllCallers |-> NoBook]
       /\ best_bid_all_exchanges = OrderBook_new.best_bid_all_exchanges
       /\ best_ask_all_exchanges = OrderBook_new.best_ask_all_exchanges
       /\ exchange_bids_price_level = EmptyMap
       /\ exchange_asks_price_level =
             WithQuantity(WithEntry(EmptyMap, <<2, "Binance">>), <<2, "Binance">>, 2, quantity)
       /\ level_calls = MapInsert(EmptyMap, <<"Sell", 2, "Binance">>,
                                  [n |-> 1, sum |-> quantity])

\* two callers that add exchange price levels concurrently
NextExchangeConc == \E t \in AllCallers : ExchangeStep(t)
SpecExchangeConc == InitExchangeConc /\ [][NextExchangeConc]_vars

\* one caller that parses prices
NextParse == parse_price(1) \/ Return(1)
SpecParse == Init /\ [][NextParse]_vars

\* one caller that parses prices on the scaled word
NextParseWord == parse_price_word(1) \/ Return(1)
SpecParseWord == Init /\ [][NextParseWord]_vars

\* ------------------------------------------------------------------ claims
\* no call is in progress
Quiet == \A t \in AllCallers : pc[t] \in {"idle", "done"}

\* what best_bid() / best_ask() return in the current state
BestBid == best_bid.val
BestAsk == best_ask.val

BookSide(b, side) == IF side = "Buy" THEN b.bids ELSE b.asks
\* the retry queue of a book that holds the market orders of a side
BookQueue(b, side) == IF side = "Buy" THEN b.market_orders_bids ELSE b.market_orders_asks
\* what best_bid() / best_ask() return on a book, for the side opposing `side`
BookOpposingBest(b, side) ==
    IF side = "Buy" THEN best_ask_in(b.asks, b.cached_best_ask).val
                    ELSE best_bid_in(b.bids, b.cached_best_bid).val
\* a book without its cached best prices (which are hints, not content)
Content(b) == [b EXCEPT !.cached_best_bid = BidSentinel, !.cached_best_ask = AskSentinel]
\* book b with one side map replaced
WithSide(b, side, m) == IF side = "Buy" THEN [b EXCEPT !.bids = m] ELSE [b EXCEPT !.asks = m]
\* book b with the order (id, quantity) resting at the end of its level and indexed
Rested(b, id, price, quantity, side) ==
    LET m == BookSide(b, side)
        level == IF price \in DOMAIN m THEN m[price] ELSE <<>>
        b2 == WithSide(b, side, MapInsert(m, price, Append(level, [id |-> id, qty |-> quantity])))
    IN  [b2 EXCEPT !.orders = MapInsert(b.orders, id, [price |-> price, side |-> side])]
\* no market order waits in a retry queue of book b
NoneQueued(b) == b.market_orders_bids = <<>> /\ b.market_orders_asks = <<>>

\* the limit order (price, side) does not cross the opposing best price of book b
NonCrossing(b, price, side) ==
    LET best == BookOpposingBest(b, side) IN
    \/ ~best.some
    \/ side = "Buy" /\ price < best.v
    \/ side = "Sell" /\ price > best.v

\* C2 as stated: when add_to_limit_order returns for a limit order that does not
\* cross the opposing best price, the book is the book before the call with the
\* incoming order resting at its price with its full quantity (no resting
\* quantity changed, no order left the index).
C2_RestsWhenCallReturns ==
    (pc[1] = "done" /\ loc[1].op = "limit"
        /\ NonCrossing(pre[1], loc[1].price, loc[1].side))
    => Content(Book) = Content(Rested(pre[1], loc[1].id, loc[1].price,
                                      loc[1].quantity, loc[1].side))

\* C2 (amended): when add_order returns for a limit order that does not cross
\* the opposing best price, nothing was matched and the book is the book before
\* the call with the incoming order resting at its price with its full quantity;
\* the same holds when add_to_limit_order returns if no market order was waiting
\* in a retry queue (the retry that follows add_order fills waiting ones).
C2_NonCrossingRests ==
    /\ (pc[1] = "ao_ret" /\ loc[1].op = "limit"
           /\ NonCrossing(loc[1].snap, loc[1].price, loc[1].side))
       => /\ ~loc[1].matched
          /\ Content(Book) = Content(Rested(loc[1].snap, loc[1].id, loc[1].price,
                                            loc[1].quantity, loc[1].side))
    /\ (pc[1] = "done" /\ loc[1].op = "limit"
           /\ NonCrossing(pre[1], loc[1].price, loc[1].side) /\ NoneQueued(pre[1]))
       => Content(Book) = Content(Rested(pre[1], loc[1].id, loc[1].price,
                                         loc[1].quantity, loc[1].side))

\* C2 witness: a buy below the best ask has returned and rests, with orders
\* resting on both sides before it
C2_Witness ==
    /\ pc[1] = "done" /\ loc[1].op = "limit" /\ loc[1].side = "Buy"
    /\ loc[1].quantity > 0
    /\ ActiveLevels(pre[1].asks) # {} /\ ActiveLevels(pre[1].bids) # {}
    /\ NonCrossing(pre[1], loc[1].price, loc[1].side)
    /\ loc[1].id \in DOMAIN orders

\* --- C3
\* the book b holds exactly one order on the side opposing `side`: order r of
\* quantity q at price p
SingleOpposing(b, side, p, q, r) ==
    /\ BookSide(b, Opposite(side)) = MapInsert(EmptyMap, p, <<[id |-> r, qty |-> q]>>)
    /\ r \in DOMAIN b.orders

\* C3: when a limit order at price p meets a single resting opposing order at p
\* of the same quantity, then after add_to_limit_order returns the resting order
\* is not in the order index, the incoming order is not resting, and the
\* opposing side map has no level at p.
C3_LevelGone ==
    \A r \in OrderIds :
       (pc[1] = "done" /\ loc[1].op = "limit" /\ loc[1].quantity > 0
          /\ SingleOpposing(pre[1], loc[1].side, loc[1].price, loc[1].quantity, r)
          /\ NoneQueued(pre[1]))
       => /\ r \notin DOMAIN orders
          /\ loc[1].id \notin DOMAIN orders
          /\ loc[1].price \notin DOMAIN SideMap(Opposite(loc[1].side))

\* --- C4
\* the best opposing level of book b, for a market order of side `side` and
\* quantity m, holds a single order, of a quantity above m
SingleLarger(b, side, m) ==
    LET best == BookOpposingBest(b, side) IN
    /\ best.some
    /\ Len(BookSide(b, Opposite(side))[best.v]) = 1
    /\ BookSide(b, Opposite(side))[best.v][1].qty > m

\* book b after that single order has lost m: every content the book may then
\* have (the timestamp is the time of the match)
PartlyFilled(b, side, m) ==
    LET opp == BookSide(b, Opposite(side))
        p == BookOpposingBest(b, side).v
        left == [opp EXCEPT ![p] = <<[opp[p][1] EXCEPT !.qty = @ - m]>>]
    IN  {Content([WithSide(b, Opposite(side), left) EXCEPT !.last_traded_at = now]) :
            now \in 1..MaxClock}

\* C4: a market order of quantity m whose best opposing level holds a single
\* order of quantity q > m leaves that order at the same price with quantity
\* q - m and in the order index, returns Ok(0) and pushes nothing on a retry
\* queue, and changes nothing else in the book but the trade timestamp: when
\* the direct submission returns, and when submit_market_order returns.
C4_PartialFill ==
    \A t \in AllCallers :
       LET l == loc[t] IN
       /\ (pc[t] = "smd_ret" /\ l.op = "market" /\ ~l.in_retry
              /\ SingleLarger(l.snap, l.side, l.quantity))
          => /\ l.direct = Ok(0)
             /\ Content(Book) \in PartlyFilled(l.snap, l.side, l.quantity)
       /\ (pc[t] = "done" /\ l.op = "market" /\ NoneQueued(pre[t])
              /\ SingleLarger(pre[t], l.side, l.quantity))
          => /\ l.result = Ok(0)
             /\ Content(Book) \in PartlyFilled(pre[t], l.side, l.quantity)

\* C4 witness: a market sell of quantity 1 has met a best bid level whose
\* only order has more than 1, after its direct submission
C4_Witness ==
    /\ pc[1] = "smd_ret" /\ loc[1].op = "market" /\ ~loc[1].in_retry
    /\ loc[1].side = "Sell" /\ loc[1].quantity = 1
    /\ BookOpposingBest(loc[1].snap, "Sell").some
    /\ Len(loc[1].snap.bids[BookOpposingBest(loc[1].snap, "Sell").v]) = 1
    /\ loc[1].snap.bids[BookOpposingBest(loc[1].snap, "Sell").v][1].qty > 1
    /\ loc[1].traded = 1
    /\ loc[1].snap.bids[loc[1].val][1].id \in DOMAIN orders

\* --- C5
\* both callers have submitted a market order of quantity 1, on the side that
\* meets the resting order 1, and both calls have returned
TwoUnitOrdersDone ==
    /\ \A t \in AllCallers :
          /\ pc[t] = "done" /\ loc[t].op = "market" /\ loc[t].quantity = 1
          /\ 1 \in DOMAIN pre[t].orders
          /\ loc[t].side = Opposite(pre[t].orders[1].side)

\* the quantity of order id in book b (0 when it is not in a level)
RestingQuantity(b, id) ==
    IF id \notin DOMAIN b.orders THEN 0
    ELSE LET m == BookSide(b, b.orders[id].side)
             p == b.orders[id].price
         IN  IF p \in DOMAIN m /\ id \in LevelIds(m[p]) THEN LevelQtyOf(m[p], id) ELSE 0

\* C5: two market orders of quantity 1 submitted concurrently against the same
\* resting order of quantity q >= 2 consume 2 in total under every interleaving:
\* the resting quantity ends at q - 2 (q being what the first call to begin
\* found), the order leaves the index only if that is 0, each market order has
\* matched exactly 1, both calls return Ok(0) and neither order waits in a retry
\* queue.
C5_ExactlyTwo ==
    TwoUnitOrdersDone =>
       /\ \A t \in AllCallers :
             /\ RestingQuantity(pre[t], 1) >= 1
             /\ loc[t].traded = 1
             /\ loc[t].result = Ok(0)
       /\ LET q == Max({RestingQuantity(pre[t], 1) : t \in AllCallers}) IN
             /\ q >= 2
             /\ RestingQuantity(Book, 1) = q - 2
             /\ (q = 2) = (1 \notin DOMAIN orders)
       /\ NoneQueued(Book)

\* C5 witness: the two calls overlapped (each began before the other had
\* matched) and the resting order of quantity 3 is left with 1
C5_Witness ==
    /\ TwoUnitOrdersDone
    /\ \A t \in AllCallers : RestingQuantity(pre[t], 1) = 3
    /\ RestingQuantity(Book, 1) = 1

\* --- C6
\* the ids of the market orders waiting in queue q with a quantity in 1..quantity
WaitingUpTo(q, quantity) == {q[i][1] : i \in {j \in 1..Len(q) : q[j][2] \in 1..quantity}}
\* the ids of the market orders waiting in queue q
WaitingIds(q) == {q[i][1] : i \in 1..Len(q)}

\* a market order met no best opposing price: when its direct submission
\* returns it has been pushed on its side's retry queue with its full quantity,
\* the call returns that quantity and nothing else in the book has changed
C6_Deferred ==
    \A t \in AllCallers :
       LET l == loc[t] IN
       (pc[t] = "smd_ret" /\ l.op = "market" /\ ~l.in_retry
          /\ ~BookOpposingBest(l.snap, l.side).some)
       => /\ l.direct = Ok(l.quantity)
          /\ Content(Book) = Content(
                IF l.side = "Buy"
                THEN [l.snap EXCEPT !.market_orders_bids = Append(@, <<l.id, l.quantity>>)]
                ELSE [l.snap EXCEPT !.market_orders_asks = Append(@, <<l.id, l.quantity>>)])

\* add_order has returned for a limit order that rests with its full quantity
\* (it crossed nothing) on the side that market orders waiting in book b meet
PlacesLiquidity(b, l) ==
    /\ l.op = "limit" /\ l.quantity > 0
    /\ NonCrossing(b, l.price, l.side)
    /\ BookQueue(b, Opposite(l.side)) # <<>>

\* C6 as stated: a market order that met an empty opposing side is queued with
\* its full quantity and the call returns it; and when a later add_to_limit_order
\* places opposing liquidity of at least the quantity of a waiting market order,
\* that call goes on to return, and its retry has filled that order (it waits no
\* longer).
C6_RetryFillsEvery ==
    /\ []C6_Deferred
    /\ [](pc[1] = "done" /\ PlacesLiquidity(pre[1], loc[1])
           => WaitingUpTo(BookQueue(pre[1], Opposite(loc[1].side)), loc[1].quantity)
                 \cap WaitingIds(Queue(Opposite(loc[1].side))) = {})
    /\ (pc[1] = "ao_ret" /\ PlacesLiquidity(pre[1], loc[1])) ~> (pc[1] = "done")

\* C6 (amended): a market order that met an empty opposing side is queued with
\* its full quantity and the call returns it; and when a later add_to_limit_order
\* places opposing liquidity of at least the quantity of the one market order
\* that waits on that side, that call goes on to return, its retry has filled
\* that order (the queue is empty) and has taken its quantity from the new order.
C6_RetryFills ==
    /\ []C6_Deferred
    /\ [](pc[1] = "done" /\ PlacesLiquidity(pre[1], loc[1])
            /\ Len(BookQueue(pre[1], Opposite(loc[1].side))) = 1
            /\ BookQueue(pre[1], Opposite(loc[1].side))[1][2] \in 1..loc[1].quantity
           => /\ Queue(Opposite(loc[1].side)) = <<>>
              /\ RestingQuantity(Book, loc[1].id)
                    = loc[1].quantity - BookQueue(pre[1], Opposite(loc[1].side))[1][2]
              /\ (loc[1].id \in DOMAIN orders) = (RestingQuantity(Book, loc[1].id) > 0))
    /\ (pc[1] = "ao_ret" /\ PlacesLiquidity(pre[1], loc[1])) ~> (pc[1] = "done")

\* C6 witness: a market sell had met an empty bid side and waited; a later
\* limit buy of at least its quantity has returned and the queue is empty
C6_Witness ==
    /\ pc[1] = "done" /\ PlacesLiquidity(pre[1], loc[1]) /\ loc[1].side = "Buy"
    /\ pre[1].bids = EmptyMap
    /\ Len(pre[1].market_orders_asks) = 1
    /\ pre[1].market_orders_asks[1][2] \in 1..loc[1].quantity
    /\ market_orders_asks = <<>>
    /\ last_traded_at > 0

\* --- C7, C8
\* order id rests in book b: it is in the order index and in the level the
\* index names
Resting(b, id) ==
    /\ id \in DOMAIN b.orders
    /\ b.orders[id].price \in DOMAIN BookSide(b, b.orders[id].side)
    /\ id \in LevelIds(BookSide(b, b.orders[id].side)[b.orders[id].price])

\* the side map of order id in book b, with the order taken out of its level
SideWithout(b, id) ==
    LET m == BookSide(b, b.orders[id].side)
        p == b.orders[id].price
    IN  [m EXCEPT ![p] = LevelWithout(m[p], id)]

\* C7: when update_order with Cancel returns for a resting order, the order is
\* out of its level and out of the order index, its level is out of the side
\* map if it held no other order, the call returns Ok and nothing else in the
\* book has changed; when it returns for an id that is not in the order index
\* (a second Cancel of the same id), it returns the "not found" error and the
\* book is as it was.
C7_Cancel ==
    (pc[1] = "done" /\ loc[1].op = "update" /\ loc[1].kind = "Cancel") =>
       /\ Resting(pre[1], loc[1].id) =>
             LET side == pre[1].orders[loc[1].id].side
                 p == pre[1].orders[loc[1].id].price
                 left == SideWithout(pre[1], loc[1].id)
             IN  /\ loc[1].result = Ok(0)
                 /\ loc[1].id \notin DOMAIN orders
                 /\ (p \in DOMAIN SideMap(side)) = (Len(left[p]) > 0)
                 /\ Book = [WithSide(pre[1], side, RetainNonEmpty(left))
                               EXCEPT !.orders = MapRemove(pre[1].orders, loc[1].id)]
       /\ loc[1].id \notin DOMAIN pre[1].orders =>
             /\ loc[1].result = Err("not found")
             /\ Book = pre[1]

\* C7 witness: the only order of the book was cancelled, its level is gone,
\* and a second Cancel of its id has returned the error
C7_Witness ==
    /\ pc[1] = "done" /\ loc[1].op = "update" /\ loc[1].kind = "Cancel"
    /\ next_id = 2 /\ n_updates = 2
    /\ loc[1].id \notin DOMAIN orders
    /\ loc[1].result = Err("not found")
    /\ bids = EmptyMap /\ asks = EmptyMap

\* C8: when update_order with UpdatePrice or UpdatePriceAndQuantity to another
\* price returns for a resting order, the order is at the end of the level at
\* the new price on the same side (a new level if there was none), with the new
\* quantity (its own for UpdatePrice), the order index holds the new price, the
\* old level is out of the side map if it held no other order, the call returns
\* Ok and nothing else in the book has changed.
C8_Moved ==
    (pc[1] = "done" /\ loc[1].op = "update"
        /\ loc[1].kind \in {"UpdatePrice", "UpdatePriceAndQuantity"}
        /\ Resting(pre[1], loc[1].id)
        /\ loc[1].new_price # pre[1].orders[loc[1].id].price) =>
       LET id == loc[1].id
           side == pre[1].orders[id].side
           p == pre[1].orders[id].price
           np == loc[1].new_price
           qty == IF loc[1].kind = "UpdatePrice"
                  THEN RestingQuantity(pre[1], id) ELSE loc[1].new_quantity
           left == SideWithout(pre[1], id)
           target == IF np \in DOMAIN left THEN left[np] ELSE <<>>
           moved == MapInsert(left, np, Append(target, [id |-> id, qty |-> qty]))
       IN  /\ loc[1].result = Ok(0)
           /\ orders = [pre[1].orders EXCEPT ![id] = [price |-> np, side |-> side]]
           /\ SideMap(side)[np] = Append(target, [id |-> id, qty |-> qty])
           /\ (p \in DOMAIN SideMap(side)) = (Len(left[p]) > 0)
           /\ Book = [WithSide(pre[1], side, RetainNonEmpty(moved))
                         EXCEPT !.orders = orders]

\* C8 witness: UpdatePriceAndQuantity has moved the only order of its level to
\* a price that had no level, with another quantity; the old level is gone
C8_Witness ==
    /\ pc[1] = "done" /\ loc[1].op = "update"
    /\ loc[1].kind = "UpdatePriceAndQuantity"
    /\ Resting(pre[1], loc[1].id)
    /\ loc[1].new_price \notin DOMAIN BookSide(pre[1], pre[1].orders[loc[1].id].side)
    /\ Len(BookSide(pre[1], pre[1].orders[loc[1].id].side)[pre[1].orders[loc[1].id].price]) = 1
    /\ loc[1].new_quantity # RestingQuantity(pre[1], loc[1].id)
    /\ RestingQuantity(Book, loc[1].id) = loc[1].new_quantity
    /\ pre[1].orders[loc[1].id].price \notin DOMAIN SideMap(pre[1].orders[loc[1].id].side)
    /\ Cardinality(DOMAIN orders) = 2

\* --- C9, C10
\* C9: last_traded_at never decreases while concurrent callers execute
\* matches (each of the calls in progress has matched a positive quantity),
\* however their steps interleave.
C9_NeverDecreases ==
    [][(\A u \in AllCallers : loc[u].traded > 0) => last_traded_at' >= last_traded_at]_vars

\* C10: a call of add_to_limit_order or submit_market_order (of a positive
\* quantity, among calls of positive quantities) during which no quantity was
\* matched has not changed last_traded_at when it returns.
C10_UnchangedWithoutMatch ==
    (\A u \in AllCallers : pc[u] = "done" /\ loc[u].quantity > 0) =>
       \A t \in AllCallers :
          (loc[t].op \in {"limit", "market"} /\ loc[t].traded = 0) => ~loc[t].stamped

\* --- C11
\* a market sell of quantity 2 was submitted to the book of three bids, with no
\* market order waiting
SellTwoOfThree ==
    /\ loc[1].op = "market" /\ loc[1].side = "Sell" /\ loc[1].quantity = 2
    /\ pre[1].orders = [id \in (MaxCalls + 1)..(MaxCalls + 3) |->
                           [price |-> id - MaxCalls, side |-> "Buy"]]
    /\ \A p \in 1..3 : pre[1].bids[p] = <<[id |-> MaxCalls + p, qty |-> 1]>>
    /\ NoneQueued(pre[1])

\* C11: with three bids of quantity 1 at three prices, submit_market_order of a
\* sell of quantity 2 goes on to return, and when it returns the direct
\* submission has filled the best bid, the retry inside the call has
\* resubmitted the queued remainder once and filled the next best bid, exactly
\* one order (the lowest bid) is in the order index and nothing waits in a
\* retry queue.
C11_RemainderRetried ==
    /\ [](pc[1] = "done" /\ SellTwoOfThree
           => /\ DOMAIN orders = {MaxCalls + 1}
              /\ Cardinality(DOMAIN orders) = 1
              /\ bids = [p \in {1} |-> <<[id |-> MaxCalls + 1, qty |-> 1]>>]
              /\ loc[1].resubmitted = 1
              /\ loc[1].traded = 2
              /\ NoneQueued(Book))
    /\ (pc[1] = "smd_best" /\ SellTwoOfThree) ~> (pc[1] = "done" /\ SellTwoOfThree)

\* C11 witness: the call has returned with one order left in the index
C11_Witness ==
    /\ pc[1] = "done" /\ SellTwoOfThree
    /\ Cardinality(DOMAIN orders) = 1
    /\ loc[1].resubmitted = 1

\* the inputs of the form digits or digits '.' digits, and their parts
Decimal(s) ==
    /\ \A i \in 1..Len(s) : s[i] \in Digits \cup {"."}
    /\ Cardinality({i \in 1..Len(s) : s[i] = "."}) <= 1
    /\ s # <<>> /\ s[1] # "."
HasPoint(s) == \E i \in 1..Len(s) : s[i] = "."
PointAt(s) == CHOOSE i \in 1..Len(s) : s[i] = "."
IntegerPart(s) == IF HasPoint(s) THEN SubSeq(s, 1, PointAt(s) - 1) ELSE s
FractionDigit(s, k) ==
    IF HasPoint(s) /\ PointAt(s) + k <= Len(s) THEN DigitValue(s[PointAt(s) + k]) ELSE 0
RECURSIVE Pow10(_)
Pow10(n) == IF n = 0 THEN 1 ELSE 10 * Pow10(n - 1)
RECURSIVE NumberOf(_)
NumberOf(d) ==
    IF d = <<>> THEN 0 ELSE DigitValue(Head(d)) * Pow10(Len(d) - 1) + NumberOf(Tail(d))

\* C12: for an input I or I.F of decimal digits, parse_price_cents returns
\* I * 100 plus the first two digits of F read as a two-digit number, a
\* missing digit counting as 0 and the digits after the second dropped
C12_Cents ==
    pc[1] = "done" /\ loc[1].op = "parse" /\ Decimal(loc[1].s)
    => loc[1].parsed = Returned(Some(NumberOf(IntegerPart(loc[1].s)) * 100
                                     + FractionDigit(loc[1].s, 1) * 10
                                     + FractionDigit(loc[1].s, 2)))

\* "95.5" has been parsed to 9550
C12_Witness ==
    /\ pc[1] = "done" /\ loc[1].op = "parse"
    /\ loc[1].s = <<"9", "5", ".", "5">>
    /\ loc[1].parsed = Returned(Some(9550))

\* C13: for every input that is not of the form digits or digits '.' digits,
\* parse_price_cents returns None
C13_NoneUnlessDecimal ==
    pc[1] = "done" /\ loc[1].op = "parse" /\ ~Decimal(loc[1].s)
    => loc[1].parsed = Returned(None)

\* the quantity that the exchange maps x hold for a side, price and exchange
Stored(x, side, price, exchange) ==
    LET m == IF side = "Buy" THEN x.bids ELSE x.asks IN
    IF <<price, exchange>> \in DOMAIN m /\ price \in DOMAIN m[<<price, exchange>>]
    THEN m[<<price, exchange>>][price] ELSE 0

\* C14: calls of add_exchange_price_level with the same price, exchange and
\* side accumulate: each call leaves the stored quantity raised by its own
\* quantity, and between calls the stored quantity is q1 + ... + qn
C14_Accumulate ==
    /\ pc[1] = "done" /\ loc[1].op = "level"
       => Stored(ExchangeLevels, loc[1].side, loc[1].price, loc[1].exchange)
          = Stored(loc[1].xpre, loc[1].side, loc[1].price, loc[1].exchange) + loc[1].quantity
    /\ pc[1] \in {"idle", "done"}
       => \A cell \in DOMAIN level_calls :
             Stored(ExchangeLevels, cell[1], cell[2], cell[3]) = level_calls[cell].sum

\* the third call for one price, exchange and side has returned; each call
\* added a quantity above 0
C14_Witness ==
    /\ pc[1] = "done" /\ loc[1].op = "level" /\ loc[1].quantity > 0
    /\ level_calls[<<loc[1].side, loc[1].price, loc[1].exchange>>].n = 3
    /\ Stored(loc[1].xpre, loc[1].side, loc[1].price, loc[1].exchange) >= 2
    /\ Stored(ExchangeLevels, loc[1].side, loc[1].price, loc[1].exchange) >= 3

\* C15: add_exchange_price_level changes only the entry under (price,
\* exchange) in the map of its side: the entries of the other exchanges and
\* the other prices, and the map of the opposite side, are unchanged
C15_OnlyItsEntry ==
    pc[1] = "done" /\ loc[1].op = "level"
    => LET key == <<loc[1].price, loc[1].exchange>>
           was == IF loc[1].side = "Buy" THEN loc[1].xpre.bids ELSE loc[1].xpre.asks
       IN  /\ DOMAIN ExchangeMap(loc[1].side) = DOMAIN was \cup {key}
           /\ \A k \in DOMAIN was \ {key} : ExchangeMap(loc[1].side)[k] = was[k]
           /\ DOMAIN ExchangeMap(loc[1].side)[key] = {loc[1].price}
           /\ ExchangeMap(Opposite(loc[1].side))
              = (IF loc[1].side = "Buy" THEN loc[1].xpre.asks ELSE loc[1].xpre.bids)
           /\ Book = NoBook

\* a call has returned on maps that held a quantity for another exchange at
\* the same price and for another price of the same exchange
C15_Witness ==
    /\ pc[1] = "done" /\ loc[1].op = "level" /\ loc[1].quantity > 0
    /\ \E e \in Exchanges \ {loc[1].exchange} :
          Stored(loc[1].xpre, loc[1].side, loc[1].price, e) > 0
    /\ \E p \in Prices \ {loc[1].price} :
          Stored(loc[1].xpre, loc[1].side, p, loc[1].exchange) > 0
    /\ ExchangeLevels # loc[1].xpre

\* C16: two concurrent calls of add_exchange_price_level for the same price,
\* exchange and side both take effect under every interleaving: once no call
\* is in progress each stored quantity is the sum of the quantities of the
\* calls made for it, and two calls that began on the same maps leave the
\* quantity raised by the sum of their two quantities
C16_BothTakeEffect ==
    /\ Quiet => \A cell \in DOMAIN level_calls :
                   Stored(ExchangeLevels, cell[1], cell[2], cell[3]) = level_calls[cell].sum
    /\ /\ pc[1] = "done" /\ pc[2] = "done"
       /\ loc[1].op = "level" /\ loc[2].op = "level"
       /\ loc[1].xpre = loc[2].xpre
       /\ <<loc[1].side, loc[1].price, loc[1].exchange>>
          = <<loc[2].side, loc[2].price, loc[2].exchange>>
       => Stored(ExchangeLevels, loc[1].side, loc[1].price, loc[1].exchange)
          = Stored(loc[1].xpre, loc[1].side, loc[1].price, loc[1].exchange)
            + loc[1].quantity + loc[2].quantity

\* two calls that began on the same maps, for the same price, exchange and
\* side and the same quantity above 0, have both returned
C16_Witness ==
    /\ pc[1] = "done" /\ pc[2] = "done"
    /\ loc[1].op = "level" /\ loc[2].op = "level"
    /\ loc[1].xpre = loc[2].xpre
    /\ <<loc[1].side, loc[1].price, loc[1].exchange>>
       = <<loc[2].side, loc[2].price, loc[2].exchange>>
    /\ loc[1].quantity = MaxQty /\ loc[2].quantity = MaxQty
    /\ Stored(ExchangeLevels, loc[1].side, loc[1].price, loc[1].exchange)
       = Stored(loc[1].xpre, loc[1].side, loc[1].price, loc[1].exchange) + 2 * MaxQty

\* C17: update_order with an id that the order index does not hold returns
\* the "order not found" error whatever the modification is, and leaves the
\* side maps, the index, the retry queues and last_traded_at as they were
C17_NotFound ==
    pc[1] = "done" /\ loc[1].op = "update" /\ loc[1].id \notin DOMAIN pre[1].orders
    => /\ loc[1].result = Err("not found")
       /\ Book = pre[1]
       /\ held[1] = {}

\* a price-and-quantity update of an id that is not in the index has
\* returned, on a book with a resting order and a queued market order
C17_Witness ==
    /\ pc[1] = "done" /\ loc[1].op = "update" /\ loc[1].kind = "UpdatePriceAndQuantity"
    /\ loc[1].id \notin DOMAIN pre[1].orders
    /\ DOMAIN pre[1].orders # {}
    /\ ~NoneQueued(pre[1])
    /\ loc[1].result.tag = "Err"

\* C18: add_to_limit_order with quantity 0 is rejected: it returns an error,
\* calls no match_order and inserts nothing into the book
C18_ZeroRejected ==
    pc[1] = "done" /\ loc[1].op = "limit" /\ loc[1].quantity = 0
    => /\ loc[1].result.tag = "Err"
       /\ ~loc[1].matched
       /\ Content(Book) = Content(pre[1])

C20_NoZeroQueued ==
    Quiet => /\ \A i \in 1..Len(market_orders_bids) : market_orders_bids[i][2] > 0
             /\ \A i \in 1..Len(market_orders_asks) : market_orders_asks[i][2] > 0

\* the positions in a queue of the entries of an order id
EntriesOf(q, id) == {j \in 1..Len(q) : q[j][1] = id}

\* C21: when a retry trigger has ended, the entries it collected are the ones
\* it resubmitted, each once and in the order collected; the queue holds no
\* entry of a resubmitted id whose resubmission returned 0 or an error, and
\* one entry, with the remainder returned, otherwise; and no step of the
\* retry loop itself lengthens a queue
C21_ResubmittedOnce ==
    /\ [](pc[1] = "done" /\ loc[1].op \in {"limit", "market"}
          => /\ Len(loc[1].retried) = Len(loc[1].popped)
             /\ \A i \in 1..Len(loc[1].retried) :
                   LET r == loc[1].retried[i]
                       q == Queue(r.side) IN
                   /\ loc[1].popped[i] = [id |-> r.id, quantity |-> r.quantity, side |-> r.side]
                   /\ \A j \in 1..Len(loc[1].retried) : loc[1].retried[j].id = r.id => j = i
                   /\ IF r.returned.tag = "Ok" /\ r.returned.v > 0
                      THEN /\ Cardinality(EntriesOf(q, r.id)) = 1
                           /\ \A j \in EntriesOf(q, r.id) : q[j][2] = r.returned.v
                      ELSE EntriesOf(q, r.id) = {})
    /\ [][pc[1] \in {"retry_pop", "retry_next"}
            => /\ Len(market_orders_bids') <= Len(market_orders_bids)
               /\ Len(market_orders_asks') <= Len(market_orders_asks)]_vars

\* a trigger has ended that resubmitted one order that was filled, one that
\* was filled in part and one that was not filled
C21_Witness ==
    /\ pc[1] = "done" /\ loc[1].op = "limit"
    /\ \E i, j, k \in 1..Len(loc[1].retried) :
          /\ loc[1].retried[i].returned = Ok(0)
          /\ loc[1].retried[j].returned.v > 0
          /\ loc[1].retried[j].returned.v < loc[1].retried[j].quantity
          /\ loc[1].retried[k].returned.v = loc[1].retried[k].quantity

\* the entries with a remaining quantity among the first k of a queue
NonZeroUpTo(q, k) == Cardinality({j \in 1..k : q[j][2] > 0})

\* C22: no queued market order is starved. Each trigger takes the oldest
\* entries: an entry that was among the first four with a remaining quantity
\* when the call began has been collected when the trigger has ended; any
\* other entry is still queued, at least four places nearer the head, behind
\* none but entries that were ahead of it before (an entry pushed back is
\* behind it); and every trigger that begins ends
C22_NoStarvation ==
    /\ [](pc[1] = "done" /\ loc[1].op \in {"limit", "market"}
          => \A side \in Sides :
                LET was == BookQueue(pre[1], side)
                    q == Queue(side) IN
                \A k \in 1..Len(was) :
                   was[k][2] > 0
                   => IF NonZeroUpTo(was, k) <= MaxOrdersPerRetry
                      THEN \E i \in 1..Len(loc[1].popped) :
                              loc[1].popped[i] = [id |-> was[k][1], quantity |-> was[k][2],
                                                  side |-> side]
                      ELSE \E j \in 1..Len(q) :
                              /\ q[j] = was[k]
                              /\ j <= k - MaxOrdersPerRetry
                              /\ \A i \in 1..(j - 1) :
                                    \E x \in 1..(k - 1) : was[x][1] = q[i][1])
    /\ (pc[1] = "retry_pop" /\ loc[1].retry_side = "Buy" /\ loc[1].popped = <<>>)
          ~> (pc[1] = "done")

\* a trigger has ended that found five market buys queued and no asks: it
\* resubmitted the four oldest, which are queued again behind the fifth
C22_Witness ==
    /\ pc[1] = "done" /\ loc[1].op = "limit"
    /\ Len(pre[1].market_orders_bids) = MaxOrdersPerRetry + 1
    /\ market_orders_bids
       = <<pre[1].market_orders_bids[MaxOrdersPerRetry + 1]>>
         \o SubSeq(pre[1].market_orders_bids, 1, MaxOrdersPerRetry)

C24_AbsentIdTolerated ==
    [][(/\ pc[1] = "ao_index"
        /\ loc'[1] # loc[1]
        /\ Head(loc[1].filled_order_ids) \notin DOMAIN orders)
       => (/\ loc'[1].result.tag # "Err"
           /\ pc'[1] = IF Tail(loc[1].filled_order_ids) = <<>>
                       THEN AoAfterMatch(loc[1]) ELSE "ao_index")]_vars


\* the step of add_order that looks up the level of the opposing best price
\* it has read and finds that level removed: no match, the order goes on to
\* rest with its full quantity
C25_LimitRestsInFull ==
    \A t \in AllCallers :
       (/\ pc[t] = "ao_match"
        /\ pc'[t] # "ao_match"
        /\ loc[t].val \notin DOMAIN SideMap(Opposite(loc[t].side)))
       => (/\ pc'[t] = "ao_insert"
           /\ loc'[t].result.tag # "Err"
           /\ loc'[t].remaining_quantity = loc[t].quantity)

\* the same step of submit_market_order_direct: no match, the order goes on
\* to be enqueued with its full quantity
C25_MarketEnqueuedInFull ==
    \A t \in AllCallers :
       (/\ pc[t] = "smd_match"
        /\ pc'[t] # "smd_match"
        /\ loc[t].val \notin DOMAIN SideMap(Opposite(loc[t].m_side)))
       => (/\ pc'[t] = "smd_enqueue"
           /\ loc'[t].direct.tag # "Err"
           /\ ~loc'[t].matched
           /\ loc'[t].remaining_quantity = loc[t].m_quantity)

\* C25: when the level read as the opposing best price has been removed by
\* another caller before the level lookup, add_limit_order and
\* submit_market_order both treat it as no liquidity: no error, the limit
\* order rests in full, the market order is enqueued with its full quantity.
C25_RemovedBestNoLiquidity ==
    [][C25_LimitRestsInFull /\ C25_MarketEnqueuedInFull]_vars


\* the order of the update that caller t has in progress no longer rests in
\* the level its index entry names: a match has filled it
FilledUnderUpdate(t) ==
    /\ loc[t].op = "update"
    /\ LET m == SideMap(loc[t].side) IN
          \/ loc[t].price \notin DOMAIN m
          \/ loc[t].id \notin LevelIds(m[loc[t].price])

\* an update that reaches its lookup in the index, or its lookup of the level,
\* after the fill returns an error (not found) without any modification
C26_UpdateAfterFill ==
    \A t \in AllCallers :
       /\ (pc[t] = "uo_lookup" /\ pc'[t] # "uo_lookup" /\ loc[t].id \notin DOMAIN orders)
          => (pc'[t] = "done" /\ loc'[t].result.tag = "Err")
       /\ (pc[t] = "uo_level" /\ pc'[t] # "uo_level" /\ FilledUnderUpdate(t))
          => (pc'[t] = "done" /\ loc'[t].result.tag = "Err" /\ bids' = bids /\ asks' = asks)

\* an id that a match of caller t has returned as fully filled and that the
\* caller has yet to remove from the index
FilledIds(t) ==
    IF pc[t] \in {"ao_time_load", "ao_time_store", "ao_index",
                  "smd_remove", "smd_time_load", "smd_time_store", "smd_index"}
    THEN {loc[t].filled_order_ids[i] : i \in 1..Len(loc[t].filled_order_ids)}
    ELSE {}

\* the levels of both sides in which the order id rests
RestingIn(id) ==
    {<<sd, p>> \in Sides \X Prices :
        p \in DOMAIN SideMap(sd) /\ id \in LevelIds(SideMap(sd)[p])}

\* C26: when a match fully fills an order while another caller calls
\* update_order on the same id, the update either completes its modification
\* before the fill or returns not found; it never panics (it always leaves its
\* level lookup, by a return or towards its modification), and the filled
\* order is left neither resting in a level nor present in the index (the
\* matcher removes the index entry: no update holds that entry for ever).
C26_FillVersusUpdate ==
    /\ [][C26_UpdateAfterFill]_vars
    /\ [](\A t \in AllCallers : \A id \in FilledIds(t) : RestingIn(id) = {})
    /\ [](\A t, u \in AllCallers :
             \A id \in FilledIds(t) : ~(pc[u] = "uo_blocked" /\ loc[u].id = id))


\* C27: concurrent add_limit_order, submit_market_order and update_order
\* calls never block one another for ever: every call that has started
\* completes (no deadlock arises from the order in which update_order and
\* add_order take the entries of the index and of the levels).
C27_EveryCallCompletes ==
    \A t \in AllCallers : (pc[t] \notin {"idle", "done"}) ~> (pc[t] = "done")



\* C28: a Cancel whose index entry another caller removes between the lookup
\* of update_order and its own removal is tolerated: the call goes on to its
\* end without an error, and the order is absent from its level and from the
\* index.
C28_CancelToleratesRemoval ==
    [][\A t \in AllCallers :
         (/\ pc[t] = "uo_cancel"
          /\ pc'[t] # "uo_cancel"
          /\ loc[t].id \notin DOMAIN orders)
         => (/\ pc'[t] = "uo_retain"
             /\ loc'[t].result.tag # "Err"
             /\ loc[t].id \notin DOMAIN orders'
             /\ <<loc[t].side, loc[t].price>> \notin RestingIn(loc[t].id)')]_vars

\* caller t is at the level lookup of update_order, and the level that the
\* index entry of its order names is present and holds no order
AtEmptyLevel(t) ==
    /\ pc[t] = "uo_level"
    /\ loc[t].price \in DOMAIN SideMap(loc[t].side)
    /\ PriceLevel_order_count(SideMap(loc[t].side)[loc[t].price]) = 0

\* C29: update_order for an indexed order whose level is present with
\* order_count() = 0 terminates: the removal of that level while the handle
\* on it is held does not block the caller, who leaves the lookup for the
\* update of the level or for a return and is never left waiting.
C29_EmptyLevelUpdateTerminates ==
    /\ [][\A t \in AllCallers :
            (AtEmptyLevel(t) /\ pc'[t] # "uo_level")
            => pc'[t] \in {"uo_apply", "done"}]_vars
    /\ [](\A t \in AllCallers : pc[t] # "uo_blocked")


\* C30: in every state where no operation is in progress the order index and
\* the side maps agree: each index entry id -> (price, side) has a level at
\* that price in the map of that side which contains the order id, and each
\* order that rests in a level has an index entry with the price and the side
\* of that level.
C30_IndexAgreesWithLevels ==
    Quiet =>
       /\ \A id \in DOMAIN orders : <<orders[id].side, orders[id].price>> \in RestingIn(id)
       /\ \A sd \in Sides : \A p \in DOMAIN SideMap(sd) : \A id \in LevelIds(SideMap(sd)[p]) :
             /\ id \in DOMAIN orders
             /\ orders[id] = [price |-> p, side |-> sd]


\* the places at which the order id rests: the positions of both side maps
\* (side, price, position within the level) that hold an order with that id
Copies(id) ==
    {c \in Sides \X Prices \X (1..(2 * MaxCalls + 3)) :
        /\ c[2] \in DOMAIN SideMap(c[1])
        /\ c[3] \in 1..Len(SideMap(c[1])[c[2]])
        /\ SideMap(c[1])[c[2]][c[3]].id = id}

\* the ids of the orders that rest in the book
RestingIds ==
    UNION {LevelIds(SideMap(sd)[p]) : <<sd, p>> \in
              {x \in Sides \X Prices : x[2] \in DOMAIN SideMap(x[1])}}

\* C31: after any sequence of add_limit_order (with distinct ids),
\* submit_market_order and update_order calls, each resting order id appears
\* in exactly one price level across both side maps, once: a price move
\* neither leaves a copy in the old level nor adds the order twice to the new.
C31_OneLevelPerOrder ==
    Quiet => \A id \in RestingIds : Cardinality(Copies(id)) = 1

\* an update_order that changed a price has returned, and the order rests at
\* its new price
C31_Witness ==
    /\ pc[1] = "done"
    /\ loc[1].op = "update"
    /\ loc[1].kind \in {"UpdatePrice", "UpdatePriceAndQuantity"}
    /\ loc[1].result.tag = "Ok"
    /\ loc[1].new_price # loc[1].price
    /\ <<loc[1].side, loc[1].new_price>> \in RestingIn(loc[1].id)
    /\ Cardinality(RestingIds) >= 2


\* C32: after any add_limit_order, submit_market_order or update_order call
\* has completed, neither side map contains a level whose order_count() is 0:
\* every match, cancel or price move that empties a level also removes it.
C32_NoEmptyLevel ==
    Quiet => \A sd \in Sides : \A p \in DOMAIN SideMap(sd) :
                PriceLevel_order_count(SideMap(sd)[p]) > 0


\* caller 1's update_order(UpdateQuantity) of an order that rested in the
\* level its index entry named has returned Ok
QuantityUpdated ==
    /\ pc[1] = "done"
    /\ loc[1].op = "update"
    /\ loc[1].kind = "UpdateQuantity"
    /\ loc[1].result.tag = "Ok"
    /\ loc[1].id \in DOMAIN pre[1].orders
    /\ LET e == pre[1].orders[loc[1].id] IN
          /\ e.price \in DOMAIN BookSide(pre[1], e.side)
          /\ loc[1].id \in LevelIds(BookSide(pre[1], e.side)[e.price])

\* the level as it is when the quantity of the order id in it is set to q
WithQuantityOf(level, id, q) ==
    [i \in 1..Len(level) |-> IF level[i].id = id THEN [level[i] EXCEPT !.qty = q]
                                                 ELSE level[i]]

\* C33: update_order with UpdateQuantity sets the quantity of the order to
\* new_quantity within its level and changes nothing else: the order stays at
\* its price and side, the order index is unchanged, no level is created, the
\* total quantity of the level changes by new_quantity minus the old quantity,
\* and every other order, the other side, the queues and the time of the last
\* trade are as before (levels that held no order are pruned).
C33_QuantityInPlace ==
    QuantityUpdated =>
       LET id == loc[1].id
           e == pre[1].orders[id]
           was == BookSide(pre[1], e.side)
           now == SideMap(e.side)
           old == LevelQtyOf(was[e.price], id) IN
          /\ orders = pre[1].orders
          /\ SideMap(Opposite(e.side)) = BookSide(pre[1], Opposite(e.side))
          /\ DOMAIN now = ActiveLevels(was)
          /\ \A p \in DOMAIN now :
                now[p] = IF p = e.price
                         THEN WithQuantityOf(was[p], id, loc[1].new_quantity)
                         ELSE was[p]
          /\ PriceLevel_total_quantity(now[e.price])
                = PriceLevel_total_quantity(was[e.price]) + loc[1].new_quantity - old
          /\ market_orders_bids = pre[1].market_orders_bids
          /\ market_orders_asks = pre[1].market_orders_asks
          /\ last_traded_at = pre[1].last_traded_at

\* the quantity of one of two orders of a level has been changed
C33_Witness ==
    /\ QuantityUpdated
    /\ LET e == pre[1].orders[loc[1].id] IN
          /\ Len(BookSide(pre[1], e.side)[e.price]) = 2
          /\ LevelQtyOf(BookSide(pre[1], e.side)[e.price], loc[1].id) # loc[1].new_quantity
          /\ LevelQtyOf(SideMap(e.side)[e.price], loc[1].id) = loc[1].new_quantity


\* the limit order (price, side) of quantity q crosses the opposing best price
\* of book b, whose level holds a total quantity below q
CrossesSmallerLevel(b, price, side, q) ==
    /\ ~NonCrossing(b, price, side)
    /\ PriceLevel_total_quantity(BookSide(b, Opposite(side))[BookOpposingBest(b, side).v]) < q

\* C34: when a crossing limit order of quantity q is matched against a best
\* opposing level that holds a total quantity t < q, then, when add_order
\* returns, the incoming order rests on its own side at its own price with
\* quantity q - t (at the end of its level, created if absent), it is recorded
\* in the order index, and every order of the opposing level, all of them
\* filled, is removed from the index.
C34_RemainderRests ==
    (/\ pc[1] = "ao_ret"
     /\ loc[1].op = "limit"
     /\ CrossesSmallerLevel(pre[1], loc[1].price, loc[1].side, loc[1].quantity))
    => LET l == loc[1]
           opposing == BookSide(pre[1], Opposite(l.side))[BookOpposingBest(pre[1], l.side).v]
           t == PriceLevel_total_quantity(opposing)
           own == BookSide(pre[1], l.side)
           level == IF l.price \in DOMAIN own THEN own[l.price] ELSE PriceLevel_new IN
          /\ SideMap(l.side) = MapInsert(own, l.price,
                                         PriceLevel_add_order(level, l.id, l.quantity - t))
          /\ l.id \in DOMAIN orders
          /\ orders[l.id] = [price |-> l.price, side |-> l.side]
          /\ \A o \in LevelIds(opposing) : o \notin DOMAIN orders
          /\ DOMAIN orders = (DOMAIN pre[1].orders \ LevelIds(opposing)) \cup {l.id}

\* a limit order of quantity 2 has met a best opposing level of total 1 and
\* rests with quantity 1
C34_Witness ==
    /\ pc[1] = "ao_ret"
    /\ loc[1].op = "limit"
    /\ loc[1].quantity = 2
    /\ CrossesSmallerLevel(pre[1], loc[1].price, loc[1].side, 2)
    /\ loc[1].traded = 1
    /\ loc[1].remaining_quantity = 1
    /\ <<loc[1].side, loc[1].price>> \in RestingIn(loc[1].id)


\* the smaller of two numbers
Smaller(x, y) == IF x <= y THEN x ELSE y

\* C35: one direct submission of a market order matches against exactly one
\* price level, the level of the best price of the opposing side as the
\* submission found it (asks for a buy, bids for a sell): that level loses
\* what was traded and is removed when emptied, every other level of both
\* sides is as before, and the unmatched remainder is pushed on the retry
\* queue of the order's own side instead of meeting a further level.
C35_OneLevelPerSubmission ==
    (/\ pc[1] = "smd_ret"
     /\ loc[1].op = "market"
     /\ ~loc[1].in_retry
     /\ BookOpposingBest(loc[1].snap, loc[1].side).some)
    => LET l == loc[1]
           best == BookOpposingBest(l.snap, l.side).v
           was == BookSide(l.snap, Opposite(l.side))
           now == SideMap(Opposite(l.side))
           t == PriceLevel_total_quantity(was[best])
           traded == Smaller(l.quantity, t)
           entry == <<l.id, l.quantity - traded>> IN
          /\ SideMap(l.side) = BookSide(l.snap, l.side)
          /\ DOMAIN now \in {DOMAIN was, DOMAIN was \ {best}}
          /\ \A p \in DOMAIN now \ {best} : now[p] = was[p]
          /\ best \in DOMAIN now => /\ PriceLevel_order_count(now[best]) > 0
                                    /\ PriceLevel_total_quantity(now[best]) = t - traded
          /\ best \notin DOMAIN now => traded = t
          /\ l.direct = Ok(l.quantity - traded)
          /\ Queue(l.side) = IF l.quantity > traded
                             THEN Append(BookQueue(l.snap, l.side), entry)
                             ELSE BookQueue(l.snap, l.side)
          /\ Queue(Opposite(l.side)) = BookQueue(l.snap, Opposite(l.side))

\* a market order larger than the level of the best opposing price has met
\* that level, a further level is untouched and the remainder waits on the
\* queue of its own side
C35_Witness ==
    /\ pc[1] = "smd_ret"
    /\ loc[1].op = "market"
    /\ ~loc[1].in_retry
    /\ BookOpposingBest(loc[1].snap, loc[1].side).some
    /\ loc[1].traded > 0
    /\ loc[1].quantity > loc[1].traded
    /\ Cardinality(ActiveLevels(BookSide(loc[1].snap, Opposite(loc[1].side)))) >= 2
    /\ Cardinality(ActiveLevels(SideMap(Opposite(loc[1].side)))) >= 1
    /\ Len(Queue(loc[1].side)) = 1


\* the remaining quantity that the retry queue q holds for the order id
RECURSIVE HeldFor(_, _)
HeldFor(q, id) ==
    IF q = <<>> THEN 0
    ELSE (IF Head(q)[1] = id THEN Head(q)[2] ELSE 0) + HeldFor(Tail(q), id)

\* C36 as stated: the value that a successful submit_market_order returns is
\* the quantity of the order still unfilled when the call returns: the
\* remaining quantity held for its id in the retry queue of its side, 0 when
\* the order is completely filled and nothing is held.
C36_UnfilledAtReturn ==
    (pc[1] = "done" /\ loc[1].op = "market" /\ loc[1].result.tag = "Ok")
    => loc[1].result.v = HeldFor(Queue(loc[1].side), loc[1].id)

\* C36, amended: the value returned is the quantity of the order unfilled
\* when its direct submission returned: the quantity submitted less the
\* quantity traded, 0 exactly when that submission filled the order, and
\* otherwise the remaining quantity that the submission pushed for the id on
\* the retry queue, in one entry. submit_market_order returns that value
\* after the retry, which does not change it.
C36_UnfilledAtDirectReturn ==
    /\ [](\A t \in AllCallers :
            (pc[t] = "smd_ret" /\ loc[t].op = "market" /\ ~loc[t].in_retry
                /\ loc[t].direct.tag = "Ok")
            => LET l == loc[t] IN
               /\ l.direct.v = l.quantity - l.traded
               /\ l.direct.v = HeldFor(Queue(l.side), l.id)
               /\ l.direct.v > 0 => Cardinality(EntriesOf(Queue(l.side), l.id)) = 1
               /\ (l.direct.v = 0 /\ l.matched) => EntriesOf(Queue(l.side), l.id) = {})
    /\ [][\A t \in AllCallers :
            /\ (pc[t] = "smd_ret" /\ pc'[t] # "smd_ret" /\ ~loc[t].in_retry)
               => loc'[t].result = loc[t].direct
            /\ (loc[t].op = "market" /\ pc[t] \notin {"idle", "done", "smd_ret"}
                  /\ loc[t].result.tag = "Ok")
               => loc'[t].result = loc[t].result]_vars

\* a market order of quantity 2 has traded 1 in its direct submission, which
\* returns 1 with the entry (id, 1) on the queue of its side
C36_Witness ==
    /\ pc[1] = "smd_ret"
    /\ loc[1].op = "market"
    /\ ~loc[1].in_retry
    /\ loc[1].quantity = 2
    /\ loc[1].traded = 1
    /\ loc[1].direct = Ok(1)
    /\ HeldFor(Queue(loc[1].side), loc[1].id) = 1


\* the prices for which a side holds data of some exchange
QuotedPrices(side) == {key[1] : key \in DOMAIN ExchangeMap(side)}

\* C37: once price data has been added through add_exchange_price_level,
\* best_bid_all_exchanges() returns the highest bid price across all
\* exchanges with an exchange that quoted it, and best_ask_all_exchanges()
\* the lowest ask price likewise; each returns None only while no data has
\* been added for its side.
C37_BestAcrossExchanges ==
    Quiet =>
       /\ IF QuotedPrices("Buy") = {}
          THEN ~best_bid_all_exchanges_fn.some
          ELSE /\ best_bid_all_exchanges_fn.some
               /\ best_bid_all_exchanges_fn.v[1] = Max(QuotedPrices("Buy"))
               /\ best_bid_all_exchanges_fn.v \in DOMAIN ExchangeMap("Buy")
       /\ IF QuotedPrices("Sell") = {}
          THEN ~best_ask_all_exchanges_fn.some
          ELSE /\ best_ask_all_exchanges_fn.some
               /\ best_ask_all_exchanges_fn.v[1] = Min(QuotedPrices("Sell"))
               /\ best_ask_all_exchanges_fn.v \in DOMAIN ExchangeMap("Sell")


\* the quantity of the market order id that the retry trigger of caller t has
\* in hand: popped and waiting in retry_orders, or being resubmitted (the
\* whole of it until match_order returns, the remainder until it is pushed)
InHand(t, id) ==
    HeldFor(loc[t].retry_orders, id)
    + (IF loc[t].in_retry /\ loc[t].m_id = id
       THEN IF pc[t] = "smd_best" THEN loc[t].m_quantity
            ELSE IF pc[t] \in {"smd_match", "smd_remove", "smd_time_load",
                               "smd_time_store", "smd_index", "smd_enqueue"}
                 THEN loc[t].remaining_quantity
                 ELSE 0
       ELSE 0)

\* the unfilled quantity of the accepted market order id that the book
\* accounts for: in a retry queue, or in the hands of a retry trigger
Accounted(id) ==
    HeldFor(market_orders_bids, id) + HeldFor(market_orders_asks, id)
    + InHand(1, id) + InHand(2, id)

\* the accepted market orders that still have quantity to fill
OpenMarketIds ==
    {id \in 1..(MaxCalls + 2 * (MaxOrdersPerRetry + 1)) : Accounted(id) > 0}

\* the quantity that the resubmission of the order id by caller t fills in a step
FilledBy(t, id) ==
    IF loc[t].in_retry /\ loc[t].m_id = id /\ pc[t] = "smd_match"
    THEN loc'[t].traded - loc[t].traded
    ELSE 0

\* C38: no market-order quantity is lost. For a market order whose submission
\* returned Ok, the quantity filled so far plus the remaining quantity held
\* for it is its original quantity at every moment no call is in progress:
\* a step takes quantity out of what is held for the order (in its retry
\* queue, or in the hands of the retry trigger that popped it) only by
\* filling it, also when the resubmission by the retry trigger returns an error.
C38_NoQuantityLost ==
    [][\A id \in OpenMarketIds :
          Accounted(id)' = Accounted(id) - (FilledBy(1, id) + FilledBy(2, id))]_vars


\* the prices of a side at which orders with quantity rest
RestingPrices(m) == {p \in DOMAIN m : PriceLevel_total_quantity(m[p]) > 0}

\* C39: the book is never left crossed. When add_to_limit_order or a
\* price-changing update_order has returned and both sides hold resting
\* quantity, the highest resting bid price is strictly below the lowest
\* resting ask price.
C39_NeverCrossed ==
    \A t \in AllCallers :
       (/\ Quiet
        /\ pc[t] = "done"
        /\ \/ loc[t].op = "limit"
           \/ loc[t].op = "update" /\ loc[t].kind \in {"UpdatePrice", "UpdatePriceAndQuantity"}
        /\ RestingPrices(bids) # {}
        /\ RestingPrices(asks) # {})
       => Max(RestingPrices(bids)) < Min(RestingPrices(asks))


\* C40: parse_price_cents never wraps or overflows. For an input I or I.F of
\* decimal digits whose integer part I is above the largest u64 divided by
\* 100 (here: the largest value of the word), it returns None: it neither
\* aborts nor returns a wrapped number.
C40_NoOverflow ==
    (/\ pc[1] = "done" /\ loc[1].op = "parse"
     /\ Decimal(loc[1].s)
     /\ NumberOf(IntegerPart(loc[1].s)) > WordMax \div 100)
    => loc[1].parsed = Returned(None)

====
